---- MODULE Spec2Model ----
(***************************************************************************)
(* A model of PingMePy's PingMeClient (src/PingMePy/PingMeClient.py): one  *)
(* client instance, a single-threaded caller that makes one blocking call  *)
(* at a time, and the HTTP transport (the requests library) as an          *)
(* environment that answers every request with a decoded JSON document or  *)
(* raises. A second specification, ThreadSpec, hands the constructed       *)
(* instance to several threads that call get_whitelist concurrently.       *)
(*                                                                         *)
(* Python values are tagged records; text is a TLA+ string, so a path is   *)
(* built by real concatenation and 'hosts' followed by an id is a different*)
(* string from 'hosts/' followed by the same id.                           *)
(***************************************************************************)
EXTENDS Integers, Sequences, FiniteSets, TLC

VARIABLES
    client,     \* the PingMeClient instance: exists, username, api_key, url, user
    call,       \* the operation being called and its arguments
    sent,       \* the HTTP requests sent by the current call, in order
    received,   \* what the transport did with each of them: an answer or a failure
    outcome,    \* how the current call ended: none / return / raise
    warned,     \* the warnings the current call gave to the warnings module
    threads     \* ThreadSpec: each thread's position in its get_whitelist call

vars == <<client, call, sent, received, outcome, warned, threads>>

----------------------------------------------------------------------------
(* Bounds *)

\* longest 'results' list in a collection document the service returns
MaxAgents == 3

\* threads that share the instance in ThreadSpec
NumThreads == 2

----------------------------------------------------------------------------
(* Python values *)

PyNone == [t |-> "None"]
PyStr(s) == [t |-> "str", s |-> s]
PyInt(n) == [t |-> "int", n |-> n]
PyBool(b) == [t |-> "bool", b |-> b]
PyDict(f) == [t |-> "dict", d |-> f]
PyList(l) == [t |-> "list", l |-> l]

PyTrue == PyBool(TRUE)
PyFalse == PyBool(FALSE)

\* '{0}'.format(v): the text Python substitutes for a value
Format(v) ==
    CASE v.t = "str" -> v.s
      [] v.t = "None" -> "None"
      [] v.t = "int" -> ToString(v.n)
      [] v.t = "bool" -> (IF v.b THEN "True" ELSE "False")
      [] OTHER -> "{}"

----------------------------------------------------------------------------
(* Results of a step: it passes, or it raises. origin tells where an exception was
   raised: "validation" while the operation looks at what the caller passed,
   "transport" inside requests.<verb>(...).json(), "answer" while the operation
   works on a decoded answer, "format" while it fills in a url template *)

Ok == [kind |-> "ok"]
Raise(exc, msg, origin) == [kind |-> "raise", exc |-> exc, msg |-> msg, origin |-> origin]
Return(v) == [kind |-> "return", val |-> v]
NoOutcome == [kind |-> "none"]

\* statement sequencing: the rest runs only if the step before it did not raise
Then(r, rest) == IF r.kind = "raise" THEN r ELSE rest

----------------------------------------------------------------------------
(* Validators, PingMeClient.py 2037-2084 *)

\* __is_string: (isinstance(val, unicode) or isinstance(val, str)) or val is None
\*              or val == '' or val.isspace()
\* "True", or "AttributeError" when val has no isspace attribute
is_string(val) ==
    IF val.t = "str" THEN "True"
    ELSE IF val.t = "None" THEN "True"
    ELSE "AttributeError"

\* __is_int: isinstance(val, (int, long)); bool is a subclass of int
is_int(val) == val.t \in {"int", "bool"}

test_parameter_for_string(param, param_name) ==
    LET r == is_string(param) IN
    IF r = "AttributeError"
    THEN Raise("AttributeError", "object has no attribute 'isspace'", "validation")
    ELSE IF r # "True"
    THEN Raise("Exception", param_name \o " must be a string and not empty.", "validation")
    ELSE Ok

test_parameter_for_int(param, param_name) ==
    IF ~ is_int(param)
    THEN Raise("Exception", param_name \o " must be an integer and not empty.", "validation")
    ELSE Ok

\* __test_parameter_for_dictionary: the message is built by
\* str.format('{0} must be a dictionary and not empty.') with no argument for {0},
\* so building it raises IndexError before the Exception exists
test_parameter_for_dictionary(param, param_name) ==
    IF param.t # "dict" \/ param.t = "None" \/ DOMAIN param.d = {}
    THEN Raise("IndexError", "tuple index out of range", "validation")
    ELSE Ok

\* __test_parameter_is_value: the test is 'param is not True' whatever expected_val is
test_parameter_is_value(param, param_name, expected_val) ==
    IF param # PyTrue
    THEN Raise("Exception", param_name \o " is " \o Format(param) \o ", expected value is "
                            \o Format(expected_val) \o ".", "validation")
    ELSE Ok

\* d[key]: KeyError when the key is missing
subscript(d, key) ==
    IF key \in DOMAIN d.d THEN Ok ELSE Raise("KeyError", key, "validation")

\* d.get(key, None)
dict_get(d, key) == IF key \in DOMAIN d.d THEN d.d[key] ELSE PyNone

\* sub in text: text has sub as a substring
contains(text, sub) ==
    \E i \in 1..(Len(text) - Len(sub) + 1) : SubSeq(text, i, i + Len(sub) - 1) = sub

\* __test_parameter_contains_val: 'contains_val not in param', a key of a dict or a
\* substring of a text; the message is built by str.format with no arguments, which
\* raises IndexError; 'in' on a value that is no container raises TypeError
test_parameter_contains_val(param, param_name, contains_val) ==
    IF param.t \notin {"dict", "str"}
    THEN Raise("TypeError", "argument is not iterable", "validation")
    ELSE IF param.t = "dict" /\ contains_val \notin DOMAIN param.d
    THEN Raise("IndexError", "tuple index out of range", "validation")
    ELSE IF param.t = "str" /\ ~ contains(param.s, contains_val)
    THEN Raise("IndexError", "tuple index out of range", "validation")
    ELSE Ok

\* a += b on what .get('results') gave: a list is extended by a list; None on either
\* side raises TypeError
iadd(a, b) ==
    IF a.t = "list" /\ b.t = "list" THEN Return(PyList(a.l \o b.l))
    ELSE Raise("TypeError", "unsupported operand or not iterable", "answer")

\* a parameter the caller left out takes the default of the signature
Omitted == [t |-> "omitted"]
default(v, d) == IF v = Omitted THEN d ELSE v

----------------------------------------------------------------------------
(* The transport *)

\* what requests.<verb>(...).json() can do: return the decoded body, raise
\* while sending (ConnectionError), or raise while decoding (ValueError)
AgentDocs == {PyStr("agentA"), PyStr("agentB")}

RECURSIVE SeqsUpTo(_, _)
SeqsUpTo(S, n) ==
    IF n = 0 THEN {<<>>}
    ELSE LET shorter == SeqsUpTo(S, n - 1) IN
         shorter \cup {Append(s, e) : s \in {q \in shorter : Len(q) = n - 1}, e \in S}

\* a collection wrapper: results plus pagination metadata (a link to a next page)
CollectionDoc(l, more) == PyDict([results |-> PyList(l), hasNext |-> PyBool(more)])
ResourceDoc == PyDict([id |-> PyStr("u1")])
ErrorDoc == PyDict([error |-> PyInt(404), errorCode |-> PyStr("RESOURCE_NOT_FOUND")])

CollectionDocs == {CollectionDoc(l, FALSE) : l \in SeqsUpTo(AgentDocs, MaxAgents)}
                    \cup {CollectionDoc(<<PyStr("agentA")>>, TRUE)}

TransportFailures == {"ConnectionError", "ValueError"}

Answers == {Return(d) : d \in CollectionDocs \cup {ResourceDoc, ErrorDoc}}
Failures == {Raise(e, "transport", "transport") : e \in TransportFailures}
Responses == Answers \cup Failures

\* a request whose digest credential has the api key in the place of the username
Request_swaps_credentials(c, verb, url, data) ==
    [verb |-> verb, url |-> url, auth |-> <<c.api_key, c.username>>, data |-> data]

\* a request as the transport sees it: self.username / self.api_key go into the
\* digest credential of every request
Request(c, verb, url, data) ==
    [verb |-> verb, url |-> url, auth |-> <<c.username, c.api_key>>, data |-> data]

\* what a call has done when it ends: the requests it sent and how it ended
Raised(v) == [sent |-> <<>>, received |-> <<>>, outcome |-> v]

\* __get sending the request a second time when the transport raised
http_get_retries(c, url, resp) ==
    IF resp.kind = "raise"
    THEN [sent |-> <<[verb |-> "GET", url |-> url, auth |-> <<c.username, c.api_key>>,
                      data |-> PyNone],
                     [verb |-> "GET", url |-> url, auth |-> <<c.username, c.api_key>>,
                      data |-> PyNone]>>,
          received |-> <<resp, resp>>, outcome |-> resp]
    ELSE [sent |-> <<[verb |-> "GET", url |-> url, auth |-> <<c.username, c.api_key>>,
                      data |-> PyNone]>>,
          received |-> <<resp>>, outcome |-> resp]

\* __get / __post / __patch / __delete: send one request, then return the decoded
\* answer or let the transport's exception through
http_get(c, url, resp) == [sent |-> <<Request(c, "GET", url, PyNone)>>,
     received |-> <<resp>>, outcome |-> resp]
http_post(c, url, data, resp) == [sent |-> <<Request(c, "POST", url, data)>>,
     received |-> <<resp>>, outcome |-> resp]
http_patch(c, url, data, resp) == [sent |-> <<Request(c, "PATCH", url, data)>>,
     received |-> <<resp>>, outcome |-> resp]
http_delete(c, url, resp) == [sent |-> <<Request(c, "DELETE", url, PyNone)>>,
     received |-> <<resp>>, outcome |-> resp]

\* urljoin(base, rel) for a relative reference without scheme, leading '/' or dot
\* segments: rel replaces what follows the last '/' of the base path; an empty base
\* path counts as '/'
BaseDir(base) == IF base.dir = "" THEN "/" ELSE base.dir
urljoin(base, rel) == base.authority \o BaseDir(base) \o rel

----------------------------------------------------------------------------
(* Inputs *)

\* a URL split at its last '/': "http://ops:8080/mms" is authority "http://ops:8080",
\* dir "/", file "mms"
Url(authority, dir, file) == [t |-> "str", authority |-> authority, dir |-> dir, file |-> file]
DefaultBaseUrl == Url("https://cloud.mongodb.com", "/", "")
OpsManagerUrl == Url("http://ops:8080", "", "")
BaseUrls == {Omitted, PyNone, DefaultBaseUrl, OpsManagerUrl}

Usernames == {PyNone, PyStr("pete"), PyInt(5)}
ApiKeys == {PyNone, PyStr("key")}

\* identifier arguments a caller may pass: text, empty and blank text, null, a number
GroupIds == {PyStr("g1"), PyStr(""), PyStr(" "), PyNone, PyInt(5)}
HostIds == {PyStr("h1"), PyStr(""), PyNone, PyInt(5)}

HostNames == {PyStr("db.example.com"), PyNone, PyInt(5)}
Ports == {PyInt(27017), PyStr("27017"), PyNone, PyTrue}
PageNums == {Omitted, PyInt(2), PyStr("2"), PyNone}
ItemsPerPage == {Omitted, PyInt(50), PyStr("50")}

\* a dict literal: the keys whose value is not Absent
Absent == [t |-> "absent"]
MkDict(full) == PyDict([k \in {x \in DOMAIN full : full[x] # Absent} |-> full[k]])

\* host descriptors for create_host / update_host
HostDescriptors ==
    {MkDict([hostname |-> hn, port |-> p, authMechanismName |-> am,
             username |-> un, password |-> pw, sslEnabled |-> ssl]) :
        hn \in {Absent, PyStr("h")},
        p \in {PyInt(27017), PyStr("27017")},
        am \in {Absent, PyStr("MONGODB_CR"), PyStr("MONGODB_X509"), PyStr("PLAIN")},
        un \in {Absent, PyNone, PyStr("bob"), PyStr(""), PyTrue},
        pw \in {Absent, PyNone, PyStr("secret"), PyTrue},
        ssl \in {Absent, PyTrue, PyFalse}}
Hosts == HostDescriptors \cup {PyNone, PyStr("h"), PyDict(<<>>)}

AlertIds == {PyStr("a1"), PyNone}
Statuses == {PyNone, PyStr("OPEN"), PyInt(5)}
PyDatetime(iso) == [t |-> "datetime", iso |-> iso]
AcknowledgeUntils == {PyDatetime("2017-07-15T00:00:00"), PyStr("2017-07-15T00:00:00Z"),
                      PyNone, PyInt(5)}
Comments == {Omitted, PyStr("noted"), PyInt(5)}

ClusterIds == {PyStr("c1"), PyInt(5)}
Timestamps == {Absent, PyNone, PyDict([date |-> PyStr("d"), increment |-> PyInt(1)]),
               PyDict([date |-> PyStr("d")]), PyInt(5)}
Deliveries == {Absent, PyNone,
               PyDict([methodName |-> PyStr("HTTP")]),
               PyDict([methodName |-> PyStr("SCP"), hostname |-> PyStr("h"),
                       port |-> PyInt(22), targetDirectory |-> PyStr("/tmp")]),
               PyDict([methodName |-> PyStr("SCP"), hostname |-> PyStr("h"),
                       targetDirectory |-> PyStr("/tmp")]),
               PyDict([methodName |-> PyStr("SCP"), port |-> PyInt(22)]),
               PyDict([methodName |-> PyStr("SCP"), hostname |-> PyInt(5),
                       port |-> PyInt(22), targetDirectory |-> PyStr("/tmp")])}
SnapshotDescriptors ==
    {MkDict([snapshotId |-> sid, checkpointId |-> cid, timestamp |-> ts, delivery |-> dl]) :
        sid \in {Absent, PyNone, PyStr("s1")}, cid \in {Absent, PyStr("k1")},
        ts \in Timestamps, dl \in Deliveries}
Snapshots == SnapshotDescriptors \cup {PyNone, PyStr("s1")}

HostNamePorts == {PyStr("db.example.com:27017"), PyStr("db.example.com"), PyNone}
MetricIds == {PyStr("OPCOUNTERS_CMD"), PyNone}
Granularities == {Omitted, PyStr("MINUTE"), PyNone}
Periods == {Omitted, PyStr("P3D")}
DeviceNames == {PyStr("xvda"), PyNone}
DatabaseNames == {PyStr("local"), PyNone}
PartitionNames == {PyStr("xvda1"), PyNone}
\* measurement names, as the values of the m parameter
Measurements == {Omitted, PyNone, PyList(<<>>), PyList(<<"CONNECTIONS">>),
                 PyList(<<"CONNECTIONS", "OPCOUNTER_CMD">>)}
Starts == {PyStr("2017-07-01T00:00:00Z"), PyNone}
Ends == {PyStr("2017-07-02T00:00:00Z"), PyNone}
GlobalAlertStatuses == {PyStr("CANCELLED"), PyStr("TRACKING"), PyStr("OPEN"), PyStr("CLOSED"),
                        PyNone, PyInt(5)}
AutomationConfigs == {PyDict([version |-> PyInt(1)]), PyNone}

\* answers to a request for one resource
SingleResponses == {Return(ResourceDoc), Return(ErrorDoc)} \cup Failures

----------------------------------------------------------------------------
(* State *)

NoClient == [exists |-> FALSE]

Threads == 1..NumThreads
NotStarted == [pc |-> "idle"]

Init ==
    /\ client = NoClient
    /\ call = [op |-> "none"]
    /\ sent = <<>>
    /\ received = <<>>
    /\ outcome = NoOutcome
    /\ warned = <<>>
    /\ threads = [t \in Threads |-> NotStarted]

Idle == outcome.kind = "none"
Ready == Idle /\ client.exists

\* the warnings a finished call has given
Warnings(done) == IF "warned" \in DOMAIN done THEN done.warned ELSE <<>>

\* a call on the existing instance runs to its end; no method but __init__ assigns
\* to an attribute of self
Do(c, done) ==
    /\ call' = c
    /\ sent' = done.sent
    /\ received' = done.received
    /\ outcome' = done.outcome
    /\ warned' = Warnings(done)
    /\ UNCHANGED <<client, threads>>

\* the caller receives the result or the exception of the finished call
CallReturns ==
    /\ outcome.kind # "none"
    /\ outcome' = NoOutcome
    /\ call' = [op |-> "none"]
    /\ sent' = <<>>
    /\ received' = <<>>
    /\ warned' = <<>>
    /\ UNCHANGED <<client, threads>>

----------------------------------------------------------------------------
(* Users, PingMeClient.py 1422-1434 *)

get_user_by_name(c, user_name, resp) ==
    LET v == test_parameter_for_string(user_name, "user_name") IN
    IF v.kind = "raise" THEN Raised(v)
    ELSE http_get(c, urljoin(c.url, "users/byName/" \o Format(user_name)), resp)

----------------------------------------------------------------------------
(* Construction, PingMeClient.py 40-58 *)

\* __init__ up to the profile lookup: the three None checks, then the fields
init_fields(username, api_key, base_url) ==
    [exists |-> TRUE, username |-> username, api_key |-> api_key,
     url |-> Url(base_url.authority, BaseDir(base_url) \o "api/public/v1.0/", ""),
     user |-> PyNone]

\* the checks of __init__ without the one of api_key
init_checks_skips_api_key(username, api_key, base_url) ==
    IF username.t = "None" THEN Raise("Exception", "username cannot be None.", "validation")
    ELSE IF base_url.t = "None" THEN Raise("Exception", "base_url cannot be None.", "validation")
    ELSE Ok

init_checks(username, api_key, base_url) ==
    IF username.t = "None" THEN Raise("Exception", "username cannot be None.", "validation")
    ELSE IF api_key.t = "None" THEN Raise("Exception", "api_key cannot be None.", "validation")
    ELSE IF base_url.t = "None" THEN Raise("Exception", "base_url cannot be None.", "validation")
    ELSE Ok

\* PingMeClient(username, api_key, base_url): the instance exists only if neither a
\* check nor the profile lookup self.get_user_by_name(self.username) raised
Call_init ==
    \E username \in Usernames, api_key \in ApiKeys, base_url \in BaseUrls,
       resp \in SingleResponses :
        LET url == default(base_url, DefaultBaseUrl)
            v == init_checks(username, api_key, url)
            self == init_fields(username, api_key, url)
            done == IF v.kind = "raise" THEN Raised(v)
                    ELSE get_user_by_name(self, username, resp)
        IN  /\ Idle
            /\ ~ client.exists
            /\ call' = [op |-> "__init__", username |-> username, api_key |-> api_key,
                        base_url |-> base_url]
            /\ sent' = done.sent
            /\ received' = done.received
            /\ outcome' = IF done.outcome.kind = "return" THEN Return(PyNone)
                          ELSE done.outcome
            /\ client' = IF done.outcome.kind = "return"
                         THEN [self EXCEPT !.user = done.outcome.val]
                         ELSE client
            /\ warned' = <<>>
            /\ UNCHANGED threads

----------------------------------------------------------------------------
(* Hosts, PingMeClient.py 61-276 *)

get_host(c, group_id, host_id, resp) ==
    LET v == Then(test_parameter_for_string(group_id, "group_id"),
                  test_parameter_for_string(host_id, "host_id"))
    IN  IF v.kind = "raise" THEN Raised(v)
        ELSE http_get(c, urljoin(c.url, "groups/" \o Format(group_id)
                                          \o "/hosts" \o Format(host_id)), resp)

Call_get_host ==
    /\ Ready
    /\ \E g \in GroupIds, h \in HostIds, r \in SingleResponses :
        Do([op |-> "get_host", group_id |-> g, host_id |-> h],
           get_host(client, g, h, r))

\* get_hosts as a client that follows the page document's link to a next page
get_hosts_follows_next_page(c, group_id, page_num, items_per_page, resp) ==
    LET pn == default(page_num, PyInt(1))
        ipp == default(items_per_page, PyInt(100))
        v == Then(test_parameter_for_string(group_id, "group_id"),
             Then(test_parameter_for_int(ipp, "items_per_page"),
                  test_parameter_for_int(pn, "page_num")))
        first == http_get(c, urljoin(c.url, "groups/" \o Format(group_id)
                                              \o "/hosts?itemsPerPage=" \o Format(ipp)
                                              \o "&pageNum" \o Format(pn)), resp)
        more == /\ resp.kind = "return"
                /\ "hasNext" \in DOMAIN resp.val.d
                /\ resp.val.d["hasNext"] = PyTrue
    IN  IF v.kind = "raise" THEN Raised(v)
        ELSE IF more
             THEN [sent |-> first.sent \o first.sent, received |-> <<resp, resp>>,
                   outcome |-> resp]
        ELSE first

get_hosts(c, group_id, page_num, items_per_page, resp) ==
    LET pn == default(page_num, PyInt(1))
        ipp == default(items_per_page, PyInt(100))
        v == Then(test_parameter_for_string(group_id, "group_id"),
             Then(test_parameter_for_int(ipp, "items_per_page"),
                  test_parameter_for_int(pn, "page_num")))
    IN  IF v.kind = "raise" THEN Raised(v)
        ELSE http_get(c, urljoin(c.url, "groups/" \o Format(group_id)
                                          \o "/hosts?itemsPerPage=" \o Format(ipp)
                                          \o "&pageNum" \o Format(pn)), resp)

Call_get_hosts ==
    /\ Ready
    /\ \E g \in GroupIds, pn \in PageNums, ipp \in ItemsPerPage, r \in Responses :
        Do([op |-> "get_hosts", group_id |-> g, page_num |-> pn, items_per_page |-> ipp],
           get_hosts(client, g, pn, ipp, r))

get_hosts_in_cluster(c, group_id, cluster_id, page_num, items_per_page, resp) ==
    LET pn == default(page_num, PyInt(1))
        ipp == default(items_per_page, PyInt(100))
        v == Then(test_parameter_for_string(group_id, "group_id"),
             Then(test_parameter_for_string(cluster_id, "cluster_id"),
             Then(test_parameter_for_int(ipp, "items_per_page"),
                  test_parameter_for_int(pn, "page_num"))))
    IN  IF v.kind = "raise" THEN Raised(v)
        ELSE http_get(c, urljoin(c.url, "groups/" \o Format(group_id)
                                          \o "/hosts?itemsPerPage=" \o Format(ipp)
                                          \o "&pageNum" \o Format(pn)
                                          \o "&clusterId=" \o Format(cluster_id)), resp)

Call_get_hosts_in_cluster ==
    /\ Ready
    /\ \E g \in GroupIds, cl \in ClusterIds, pn \in PageNums, ipp \in ItemsPerPage,
          r \in Responses :
        Do([op |-> "get_hosts_in_cluster", group_id |-> g, cluster_id |-> cl,
            page_num |-> pn, items_per_page |-> ipp],
           get_hosts_in_cluster(client, g, cl, pn, ipp, r))

\* get_host_by_hostname_and_port without its check of the port
get_host_by_hostname_and_port_unchecked(c, group_id, host_name, port, resp) ==
    LET v == Then(test_parameter_for_string(group_id, "group_id"),
                  test_parameter_for_string(host_name, "host_name"))
    IN  IF v.kind = "raise" THEN Raised(v)
        ELSE http_get(c, urljoin(c.url, "groups/" \o Format(group_id) \o "/hosts/byName/"
                                          \o Format(host_name) \o ":" \o Format(port)), resp)

get_host_by_hostname_and_port(c, group_id, host_name, port, resp) ==
    LET v == Then(test_parameter_for_string(group_id, "group_id"),
             Then(test_parameter_for_string(host_name, "host_name"),
                  test_parameter_for_int(port, "port")))
    IN  IF v.kind = "raise" THEN Raised(v)
        ELSE http_get(c, urljoin(c.url, "groups/" \o Format(group_id) \o "/hosts/byName/"
                                          \o Format(host_name) \o ":" \o Format(port)), resp)

Call_get_host_by_hostname_and_port ==
    /\ Ready
    /\ \E g \in GroupIds, n \in HostNames, p \in Ports, r \in SingleResponses :
        Do([op |-> "get_host_by_hostname_and_port", group_id |-> g, host_name |-> n,
            port |-> p],
           get_host_by_hostname_and_port(client, g, n, p, r))

create_host(c, group_id, host, resp) ==
    LET auth == dict_get(host, "authMechanismName")
        v == Then(test_parameter_for_string(group_id, "group_id"),
             Then(test_parameter_for_dictionary(host, "host"),
             Then(subscript(host, "hostname"),
             Then(test_parameter_for_string(host.d["hostname"], "host.hostname"),
             Then(subscript(host, "port"),
             Then(test_parameter_for_int(host.d["port"], "host.port"),
             Then(IF auth = PyStr("MONGODB_CR")
                  THEN Then(subscript(host, "username"),
                       Then(test_parameter_for_string(host.d["username"], "host.username"),
                       Then(subscript(host, "password"),
                            test_parameter_for_string(host.d["password"], "host.password"))))
                  ELSE Ok,
                  IF auth = PyStr("MONGODB_X509")
                  THEN Then(subscript(host, "username"),
                       Then(test_parameter_is_value(host.d["username"], "host.username", PyNone),
                       Then(subscript(host, "password"),
                       Then(test_parameter_is_value(host.d["password"], "host.password", PyNone),
                       Then(subscript(host, "sslEnabled"),
                            test_parameter_is_value(host.d["sslEnabled"], "host.sslEnabled",
                                                    PyTrue))))))
                  ELSE Ok)))))))
    IN  IF v.kind = "raise" THEN Raised(v)
        ELSE http_post(c, urljoin(c.url, "groups/" \o Format(group_id) \o "/hosts"), host, resp)

Call_create_host ==
    /\ Ready
    /\ \E g \in GroupIds, host \in Hosts, r \in SingleResponses :
        Do([op |-> "create_host", group_id |-> g, host |-> host],
           create_host(client, g, host, r))

delete_host(c, group_id, host_id, resp) ==
    LET v == Then(test_parameter_for_string(group_id, "group_id"),
                  test_parameter_for_string(host_id, "host_id"))
    IN  IF v.kind = "raise" THEN Raised(v)
        ELSE http_delete(c, urljoin(c.url, "groups/" \o Format(group_id)
                                             \o "/hosts/" \o Format(host_id)), resp)

Call_delete_host ==
    /\ Ready
    /\ \E g \in GroupIds, h \in HostIds, r \in SingleResponses :
        Do([op |-> "delete_host", group_id |-> g, host_id |-> h],
           delete_host(client, g, h, r))

get_last_ping(c, group_id, host_id, resp) ==
    LET v == Then(test_parameter_for_string(group_id, "group_id"),
                  test_parameter_for_string(host_id, "host_id"))
    IN  IF v.kind = "raise" THEN Raised(v)
        ELSE http_get(c, urljoin(c.url, "groups/" \o Format(group_id)
                                          \o "/hosts/" \o Format(host_id) \o "/lastPing"), resp)

Call_get_last_ping ==
    /\ Ready
    /\ \E g \in GroupIds, h \in HostIds, r \in SingleResponses :
        Do([op |-> "get_last_ping", group_id |-> g, host_id |-> h],
           get_last_ping(client, g, h, r))

----------------------------------------------------------------------------
(* Deprecated operations, PingMeClient.py 14-29, 133-151, 1188-1276 *)

\* @deprecated above a def is name = deprecated(func): one argument for the two
\* parameters (func, new_func_name), so the call of the decorator raises TypeError.
\* Nothing is wrapped, no warning is given and the body of func never runs. The name
\* is reached here as a call that ends in that TypeError; the other operations are
\* modelled as the class body defines them.
deprecated(func) ==
    Raised(Raise("TypeError", "deprecated() takes exactly 2 arguments (1 given)",
                 "definition"))

\* the function under the decorator
get_host_by_name_undecorated(c, group_id, host_name, resp) ==
    LET v == Then(test_parameter_for_string(group_id, "group_id"),
             Then(test_parameter_for_string(host_name, "host_name"),
                  test_parameter_contains_val(host_name, "host_name", ":")))
    IN  IF v.kind = "raise" THEN Raised(v)
        ELSE http_get(c, urljoin(c.url, "groups/" \o Format(group_id) \o "/hosts/byName/"
                                          \o Format(host_name)), resp)

get_host_by_name(c, group_id, host_name, resp) ==
    deprecated(get_host_by_name_undecorated(c, group_id, host_name, resp))

Call_get_host_by_name ==
    /\ Ready
    /\ \E g \in GroupIds, n \in HostNamePorts, r \in SingleResponses :
        Do([op |-> "get_host_by_name", group_id |-> g, host_name |-> n],
           get_host_by_name(client, g, n, r))

get_metrics_undecorated(c, group_id, host_id, resp) ==
    LET v == Then(test_parameter_for_string(group_id, "group_id"),
                  test_parameter_for_string(host_id, "host_id"))
    IN  IF v.kind = "raise" THEN Raised(v)
        ELSE http_get(c, urljoin(c.url, "groups/" \o Format(group_id) \o "/hosts/"
                                          \o Format(host_id) \o "/metrics"), resp)

get_metrics(c, group_id, host_id, resp) ==
    deprecated(get_metrics_undecorated(c, group_id, host_id, resp))

Call_get_metrics ==
    /\ Ready
    /\ \E g \in GroupIds, h \in HostIds, r \in SingleResponses :
        Do([op |-> "get_metrics", group_id |-> g, host_id |-> h],
           get_metrics(client, g, h, r))

get_metric_undecorated(c, group_id, host_id, metric_id, granularity, period, resp) ==
    LET gr == default(granularity, PyStr("1M"))
        pe == default(period, PyStr("P2D"))
        v == Then(test_parameter_for_string(group_id, "group_id"),
             Then(test_parameter_for_string(host_id, "host_id"),
                  test_parameter_for_string(metric_id, "metric_id")))
    IN  IF v.kind = "raise" THEN Raised(v)
        ELSE http_get(c, urljoin(c.url, "groups/" \o Format(group_id) \o "/hosts/"
                                          \o Format(host_id) \o "/metrics/"
                                          \o Format(metric_id) \o "?granularity="
                                          \o Format(gr) \o "&period=" \o Format(pe)), resp)

get_metric(c, group_id, host_id, metric_id, granularity, period, resp) ==
    deprecated(get_metric_undecorated(c, group_id, host_id, metric_id, granularity, period, resp))

Call_get_metric ==
    /\ Ready
    /\ \E g \in GroupIds, h \in HostIds, m \in MetricIds, gr \in Granularities,
          pe \in Periods, r \in SingleResponses :
        Do([op |-> "get_metric", group_id |-> g, host_id |-> h, metric_id |-> m,
            granularity |-> gr, period |-> pe],
           get_metric(client, g, h, m, gr, pe, r))

get_device_metric_undecorated(c, group_id, host_id, metric_id, device_name, granularity, period, resp) ==
    LET gr == default(granularity, PyStr("1M"))
        pe == default(period, PyStr("P2D"))
        v == Then(test_parameter_for_string(group_id, "group_id"),
             Then(test_parameter_for_string(host_id, "host_id"),
                  test_parameter_for_string(metric_id, "metric_id")))
    IN  IF v.kind = "raise" THEN Raised(v)
        ELSE http_get(c, urljoin(c.url, "groups/" \o Format(group_id) \o "/hosts/"
                                          \o Format(host_id) \o "/metrics/"
                                          \o Format(metric_id) \o "/" \o Format(device_name)
                                          \o "?granularity=" \o Format(gr)
                                          \o "&period=" \o Format(pe)), resp)

get_device_metric(c, group_id, host_id, metric_id, device_name, granularity, period, resp) ==
    deprecated(get_device_metric_undecorated(c, group_id, host_id, metric_id, device_name,
                                             granularity, period, resp))

Call_get_device_metric ==
    /\ Ready
    /\ \E g \in GroupIds, h \in HostIds, m \in MetricIds, d \in DeviceNames,
          gr \in Granularities, pe \in Periods, r \in SingleResponses :
        Do([op |-> "get_device_metric", group_id |-> g, host_id |-> h, metric_id |-> m,
            device_name |-> d, granularity |-> gr, period |-> pe],
           get_device_metric(client, g, h, m, d, gr, pe, r))

get_database_metric_undecorated(c, group_id, host_id, metric_id, database_name, granularity, period, resp) ==
    LET gr == default(granularity, PyStr("1M"))
        pe == default(period, PyStr("P2D"))
        v == Then(test_parameter_for_string(group_id, "group_id"),
             Then(test_parameter_for_string(host_id, "host_id"),
                  test_parameter_for_string(metric_id, "metric_id")))
    IN  IF v.kind = "raise" THEN Raised(v)
        ELSE http_get(c, urljoin(c.url, "groups/" \o Format(group_id) \o "/hosts/"
                                          \o Format(host_id) \o "/metrics/"
                                          \o Format(metric_id) \o "/" \o Format(database_name)
                                          \o "?granularity=" \o Format(gr)
                                          \o "&period=" \o Format(pe)), resp)

get_database_metric(c, group_id, host_id, metric_id, database_name, granularity, period, resp) ==
    deprecated(get_database_metric_undecorated(c, group_id, host_id, metric_id, database_name,
                                               granularity, period, resp))

Call_get_database_metric ==
    /\ Ready
    /\ \E g \in GroupIds, h \in HostIds, m \in MetricIds, d \in DatabaseNames,
          gr \in Granularities, pe \in Periods, r \in SingleResponses :
        Do([op |-> "get_database_metric", group_id |-> g, host_id |-> h, metric_id |-> m,
            database_name |-> d, granularity |-> gr, period |-> pe],
           get_database_metric(client, g, h, m, d, gr, pe, r))

----------------------------------------------------------------------------
(* Disks and databases, PingMeClient.py 280-354 *)

get_disk_partitions(c, group_id, host_id, resp) ==
    LET v == Then(test_parameter_for_string(group_id, "group_id"),
                  test_parameter_for_string(host_id, "host_id"))
    IN  IF v.kind = "raise" THEN Raised(v)
        ELSE http_delete(c, urljoin(c.url, "groups/" \o Format(group_id) \o "/hosts/"
                                             \o Format(host_id) \o "/disks"), resp)

Call_get_disk_partitions ==
    /\ Ready
    /\ \E g \in GroupIds, h \in HostIds, r \in Responses :
        Do([op |-> "get_disk_partitions", group_id |-> g, host_id |-> h],
           get_disk_partitions(client, g, h, r))

get_disk_partition(c, group_id, host_id, partition_name, resp) ==
    LET v == Then(test_parameter_for_string(group_id, "group_id"),
             Then(test_parameter_for_string(host_id, "host_id"),
                  test_parameter_for_string(partition_name, "partition_name")))
    IN  IF v.kind = "raise" THEN Raised(v)
        ELSE http_delete(c, urljoin(c.url, "groups/" \o Format(group_id) \o "/hosts/"
                                             \o Format(host_id) \o "/disks/"
                                             \o Format(partition_name)), resp)

Call_get_disk_partition ==
    /\ Ready
    /\ \E g \in GroupIds, h \in HostIds, pn \in PartitionNames, r \in SingleResponses :
        Do([op |-> "get_disk_partition", group_id |-> g, host_id |-> h,
            partition_name |-> pn],
           get_disk_partition(client, g, h, pn, r))

get_databases(c, group_id, host_id, resp) ==
    LET v == Then(test_parameter_for_string(group_id, "group_id"),
                  test_parameter_for_string(host_id, "host_id"))
    IN  IF v.kind = "raise" THEN Raised(v)
        ELSE http_delete(c, urljoin(c.url, "groups/" \o Format(group_id) \o "/hosts/"
                                             \o Format(host_id) \o "/databases"), resp)

Call_get_databases ==
    /\ Ready
    /\ \E g \in GroupIds, h \in HostIds, r \in Responses :
        Do([op |-> "get_databases", group_id |-> g, host_id |-> h],
           get_databases(client, g, h, r))

get_single_database(c, group_id, host_id, database_name, resp) ==
    LET v == Then(test_parameter_for_string(group_id, "group_id"),
             Then(test_parameter_for_string(host_id, "host_id"),
                  test_parameter_for_string(database_name, "database_name")))
    IN  IF v.kind = "raise" THEN Raised(v)
        ELSE http_delete(c, urljoin(c.url, "groups/" \o Format(group_id) \o "/hosts/"
                                             \o Format(host_id) \o "/databases/"
                                             \o Format(database_name)), resp)

Call_get_single_database ==
    /\ Ready
    /\ \E g \in GroupIds, h \in HostIds, d \in DatabaseNames, r \in SingleResponses :
        Do([op |-> "get_single_database", group_id |-> g, host_id |-> h,
            database_name |-> d],
           get_single_database(client, g, h, d, r))

----------------------------------------------------------------------------
(* Measurements, PingMeClient.py 437-473, 695-714 *)

\* "&".join(measurements)
RECURSIVE join(_, _)
join(sep, l) ==
    IF l = <<>> THEN ""
    ELSE IF Len(l) = 1 THEN l[1]
    ELSE l[1] \o sep \o join(sep, Tail(l))

get_host_measurements_by_period(c, group_id, host_id, granularity, period, measurements, resp) ==
    LET ms == default(measurements, PyNone)
        v == Then(test_parameter_for_string(group_id, "group_id"),
             Then(test_parameter_for_string(host_id, "host_id"),
             Then(test_parameter_for_string(granularity, "granularity"),
                  test_parameter_for_string(period, "period"))))
        url == urljoin(c.url, "groups/" \o Format(group_id) \o "/hosts/" \o Format(host_id)
                                \o "/measurements?granularity=" \o Format(granularity)
                                \o "&period=" \o Format(period))
    IN  IF v.kind = "raise" THEN Raised(v)
        ELSE IF ms.t = "None" THEN http_get(c, url, resp)
        ELSE http_get(c, url \o "&" \o join("&", ms.l), resp)

Call_get_host_measurements_by_period ==
    /\ Ready
    /\ \E g \in GroupIds, h \in HostIds, gr \in Granularities \ {Omitted},
          pe \in Periods \ {Omitted}, ms \in Measurements, r \in SingleResponses :
        Do([op |-> "get_host_measurements_by_period", group_id |-> g, host_id |-> h,
            granularity |-> gr, period |-> pe, measurements |-> ms],
           get_host_measurements_by_period(client, g, h, gr, pe, ms, r))

\* a string literal continued with a backslash at the end of the line takes the
\* indentation of the next line into the text: n spaces
RECURSIVE continuation(_)
continuation(n) == IF n = 0 THEN "" ELSE " " \o continuation(n - 1)

\* url = "{0}&{1}".format(url, "&".join(measurements)) when measurements is not None
with_measurements(url, measurements) ==
    LET ms == default(measurements, PyNone)
    IN  IF ms.t = "None" THEN url ELSE url \o "&" \o join("&", ms.l)

get_host_measurements_by_time_range(c, group_id, host_id, granularity, start, end, measurements, resp) ==
    LET v == Then(test_parameter_for_string(group_id, "group_id"),
             Then(test_parameter_for_string(host_id, "host_id"),
             Then(test_parameter_for_string(granularity, "granularity"),
             Then(test_parameter_for_string(start, "start"),
                  test_parameter_for_string(end, "end")))))
        url == urljoin(c.url, "groups/" \o Format(group_id) \o "/hosts/" \o Format(host_id)
                                \o "/measurements" \o continuation(22)
                                \o "?granularity=" \o Format(granularity)
                                \o "&start=" \o Format(start) \o "&end=" \o Format(end))
    IN  IF v.kind = "raise" THEN Raised(v)
        ELSE http_get(c, with_measurements(url, measurements), resp)

Call_get_host_measurements_by_time_range ==
    /\ Ready
    /\ \E g \in GroupIds, h \in HostIds, gr \in Granularities \ {Omitted},
          st \in Starts, en \in Ends, ms \in Measurements, r \in SingleResponses :
        Do([op |-> "get_host_measurements_by_time_range", group_id |-> g, host_id |-> h,
            granularity |-> gr, start |-> st, end |-> en, measurements |-> ms],
           get_host_measurements_by_time_range(client, g, h, gr, st, en, ms, r))

get_disk_partition_measurements_by_period(c, group_id, host_id, partition_name, granularity, period, measurements, resp) ==
    LET v == Then(test_parameter_for_string(group_id, "group_id"),
             Then(test_parameter_for_string(host_id, "host_id"),
             Then(test_parameter_for_string(partition_name, "partition_name"),
             Then(test_parameter_for_string(granularity, "granularity"),
                  test_parameter_for_string(period, "period")))))
        url == urljoin(c.url, "groups/" \o Format(group_id) \o "/hosts/" \o Format(host_id)
                                \o "/disks/" \o Format(partition_name)
                                \o "/measurements" \o continuation(22)
                                \o "?granularity=" \o Format(granularity)
                                \o "&period=" \o Format(period))
    IN  IF v.kind = "raise" THEN Raised(v)
        ELSE http_get(c, with_measurements(url, measurements), resp)

Call_get_disk_partition_measurements_by_period ==
    /\ Ready
    /\ \E g \in GroupIds, h \in HostIds, pn \in PartitionNames,
          gr \in Granularities \ {Omitted}, pe \in Periods \ {Omitted},
          ms \in Measurements, r \in SingleResponses :
        Do([op |-> "get_disk_partition_measurements_by_period", group_id |-> g,
            host_id |-> h, partition_name |-> pn, granularity |-> gr, period |-> pe,
            measurements |-> ms],
           get_disk_partition_measurements_by_period(client, g, h, pn, gr, pe, ms, r))

get_disk_partition_measurements_by_time_range(c, group_id, host_id, partition_name, granularity, start, end, measurements, resp) ==
    LET v == Then(test_parameter_for_string(group_id, "group_id"),
             Then(test_parameter_for_string(host_id, "host_id"),
             Then(test_parameter_for_string(partition_name, "partition_name"),
             Then(test_parameter_for_string(granularity, "granularity"),
             Then(test_parameter_for_string(start, "start"),
                  test_parameter_for_string(end, "end"))))))
        url == urljoin(c.url, "groups/" \o Format(group_id) \o "/hosts/" \o Format(host_id)
                                \o "/disks/" \o Format(partition_name)
                                \o "/measurements" \o continuation(22)
                                \o "?granularity=" \o Format(granularity)
                                \o "&start=" \o Format(start) \o "&end=" \o Format(end))
    IN  IF v.kind = "raise" THEN Raised(v)
        ELSE http_get(c, with_measurements(url, measurements), resp)

Call_get_disk_partition_measurements_by_time_range ==
    /\ Ready
    /\ \E g \in GroupIds, h \in HostIds, pn \in PartitionNames,
          gr \in Granularities \ {Omitted}, st \in Starts, en \in Ends,
          ms \in Measurements, r \in SingleResponses :
        Do([op |-> "get_disk_partition_measurements_by_time_range", group_id |-> g,
            host_id |-> h, partition_name |-> pn, granularity |-> gr, start |-> st,
            end |-> en, measurements |-> ms],
           get_disk_partition_measurements_by_time_range(client, g, h, pn, gr, st, en, ms, r))

get_database_measurements_by_period(c, group_id, host_id, database_name, granularity, period, measurements, resp) ==
    LET v == Then(test_parameter_for_string(group_id, "group_id"),
             Then(test_parameter_for_string(host_id, "host_id"),
             Then(test_parameter_for_string(database_name, "database_name"),
             Then(test_parameter_for_string(granularity, "granularity"),
                  test_parameter_for_string(period, "period")))))
        url == urljoin(c.url, "groups/" \o Format(group_id) \o "/hosts/" \o Format(host_id)
                                \o "/database/" \o Format(database_name)
                                \o "/measurements" \o continuation(22)
                                \o "?granularity=" \o Format(granularity)
                                \o "&period=" \o Format(period))
    IN  IF v.kind = "raise" THEN Raised(v)
        ELSE http_get(c, with_measurements(url, measurements), resp)

Call_get_database_measurements_by_period ==
    /\ Ready
    /\ \E g \in GroupIds, h \in HostIds, d \in DatabaseNames,
          gr \in Granularities \ {Omitted}, pe \in Periods \ {Omitted},
          ms \in Measurements, r \in SingleResponses :
        Do([op |-> "get_database_measurements_by_period", group_id |-> g, host_id |-> h,
            database_name |-> d, granularity |-> gr, period |-> pe, measurements |-> ms],
           get_database_measurements_by_period(client, g, h, d, gr, pe, ms, r))

get_database_measurements_by_time_range(c, group_id, host_id, database_name, granularity, start, end, measurements, resp) ==
    LET v == Then(test_parameter_for_string(group_id, "group_id"),
             Then(test_parameter_for_string(host_id, "host_id"),
             Then(test_parameter_for_string(database_name, "database_name"),
             Then(test_parameter_for_string(granularity, "granularity"),
             Then(test_parameter_for_string(start, "start"),
                  test_parameter_for_string(end, "end"))))))
        url == urljoin(c.url, "groups/" \o Format(group_id) \o "/hosts/" \o Format(host_id)
                                \o "/database/" \o Format(database_name)
                                \o "/measurements" \o continuation(22)
                                \o "?granularity=" \o Format(granularity)
                                \o "&start=" \o Format(start) \o "&end=" \o Format(end))
    IN  IF v.kind = "raise" THEN Raised(v)
        ELSE http_get(c, with_measurements(url, measurements), resp)

Call_get_database_measurements_by_time_range ==
    /\ Ready
    /\ \E g \in GroupIds, h \in HostIds, d \in DatabaseNames,
          gr \in Granularities \ {Omitted}, st \in Starts, en \in Ends,
          ms \in Measurements, r \in SingleResponses :
        Do([op |-> "get_database_measurements_by_time_range", group_id |-> g,
            host_id |-> h, database_name |-> d, granularity |-> gr, start |-> st,
            end |-> en, measurements |-> ms],
           get_database_measurements_by_time_range(client, g, h, d, gr, st, en, ms, r))

\* get_list_of_measurements sending the url it builds itself before it calls
\* get_host_measurements_by_period
get_list_of_measurements_sends_both(c, group_id, host_id, resp) ==
    LET v == Then(test_parameter_for_string(group_id, "group_id"),
                  test_parameter_for_string(host_id, "host_id"))
        url == urljoin(c.url, "groups/" \o Format(group_id) \o "/hosts/" \o Format(host_id)
                                \o "/measurements?granularity=PT5M&period=PT5M")
        own == http_get(c, url, resp)
        sub == get_host_measurements_by_period(c, group_id, host_id, PyStr("PT5M"),
                                               PyStr("PT5M"), Omitted, resp)
    IN  IF v.kind = "raise" THEN Raised(v)
        ELSE IF own.outcome.kind = "raise" THEN own
        ELSE [sent |-> own.sent \o sub.sent, received |-> own.received \o sub.received,
              outcome |-> sub.outcome]

\* the url built here is not used: the request is the one of
\* get_host_measurements_by_period
get_list_of_measurements(c, group_id, host_id, resp) ==
    LET v == Then(test_parameter_for_string(group_id, "group_id"),
                  test_parameter_for_string(host_id, "host_id"))
    IN  IF v.kind = "raise" THEN Raised(v)
        ELSE get_host_measurements_by_period(c, group_id, host_id, PyStr("PT5M"),
                                             PyStr("PT5M"), Omitted, resp)

Call_get_list_of_measurements ==
    /\ Ready
    /\ \E g \in GroupIds, h \in HostIds, r \in SingleResponses :
        Do([op |-> "get_list_of_measurements", group_id |-> g, host_id |-> h],
           get_list_of_measurements(client, g, h, r))

----------------------------------------------------------------------------
(* Alerts and alert configurations, PingMeClient.py 717-832 *)

get_alerts(c, group_id, status, page_num, items_per_page, resp) ==
    LET pn == default(page_num, PyInt(1))
        ipp == default(items_per_page, PyInt(100))
        v == Then(test_parameter_for_string(group_id, "group_id"),
             Then(test_parameter_for_int(ipp, "items_per_page"),
             Then(test_parameter_for_int(pn, "page_num"),
                  IF status.t # "None" THEN test_parameter_for_string(status, "status")
                  ELSE Ok)))
        url == urljoin(c.url, "groups/" \o Format(group_id) \o "/alerts?pageNum=" \o Format(pn)
                                \o "&items_per_page=" \o Format(ipp))
    IN  IF v.kind = "raise" THEN Raised(v)
        ELSE http_get(c, IF status.t # "None" THEN url \o "&" \o Format(status) ELSE url, resp)

Call_get_alerts ==
    /\ Ready
    /\ \E g \in GroupIds, st \in Statuses, pn \in PageNums, ipp \in ItemsPerPage,
          r \in Responses :
        Do([op |-> "get_alerts", group_id |-> g, status |-> st, page_num |-> pn,
            items_per_page |-> ipp],
           get_alerts(client, g, st, pn, ipp, r))

get_alert(c, group_id, alert_id, page_num, items_per_page, resp) ==
    LET pn == default(page_num, PyInt(1))
        ipp == default(items_per_page, PyInt(100))
        v == Then(test_parameter_for_string(group_id, "group_id"),
             Then(test_parameter_for_string(alert_id, "alert_id"),
             Then(test_parameter_for_int(ipp, "items_per_page"),
                  test_parameter_for_int(pn, "page_num"))))
    IN  IF v.kind = "raise" THEN Raised(v)
        ELSE http_get(c, urljoin(c.url, "groups/" \o Format(group_id) \o "/alerts/"
                                          \o Format(alert_id) \o "?pageNum=" \o Format(pn)
                                          \o "&items_per_page=" \o Format(ipp)), resp)

Call_get_alert ==
    /\ Ready
    /\ \E g \in GroupIds, a \in AlertIds, pn \in PageNums, ipp \in ItemsPerPage,
          r \in Responses :
        Do([op |-> "get_alert", group_id |-> g, alert_id |-> a, page_num |-> pn,
            items_per_page |-> ipp],
           get_alert(client, g, a, pn, ipp, r))

\* acknowledge_alert sending its PATCH before it looks at the type of acknowledge_until
acknowledge_alert_sends_first(c, group_id, alert_id, acknowledge_until, acknowledgement_comment, resp) ==
    LET comment == default(acknowledgement_comment, PyNone)
        v == Then(test_parameter_for_string(group_id, "group_id"),
                  IF comment.t # "None"
                  THEN test_parameter_for_string(comment, "acknowledgement_comment")
                  ELSE Ok)
        until == IF acknowledge_until.t = "datetime" THEN PyStr(acknowledge_until.iso)
                 ELSE acknowledge_until
        ack_doc == PyDict([acknowledgedUntil |-> until, acknowledgementComment |-> comment])
        done == http_patch(c, urljoin(c.url, "groups/" \o Format(group_id) \o "/alerts/"
                                               \o Format(alert_id)), ack_doc, resp)
    IN  IF v.kind = "raise" THEN Raised(v)
        ELSE IF acknowledge_until.t \in {"datetime", "str"} THEN done
        ELSE [done EXCEPT !.outcome =
                Raise("Exception", "acknowledge_until is the wrong type. Must be str, "
                                   \o "unicode, " \o continuation(28) \o "or datetime",
                      "validation")]

acknowledge_alert(c, group_id, alert_id, acknowledge_until, acknowledgement_comment, resp) ==
    LET comment == default(acknowledgement_comment, PyNone)
        v == Then(test_parameter_for_string(group_id, "group_id"),
             Then(IF comment.t # "None"
                  THEN test_parameter_for_string(comment, "acknowledgement_comment")
                  ELSE Ok,
                  IF acknowledge_until.t \in {"datetime", "str"} THEN Ok
                  ELSE Raise("Exception", "acknowledge_until is the wrong type. Must be str, "
                                          \o "unicode, " \o continuation(28) \o "or datetime",
                             "validation")))
        until == IF acknowledge_until.t = "datetime" THEN PyStr(acknowledge_until.iso)
                 ELSE acknowledge_until
        ack_doc == PyDict([acknowledgedUntil |-> until, acknowledgementComment |-> comment])
    IN  IF v.kind = "raise" THEN Raised(v)
        ELSE http_patch(c, urljoin(c.url, "groups/" \o Format(group_id) \o "/alerts/"
                                            \o Format(alert_id)), ack_doc, resp)

Call_acknowledge_alert ==
    /\ Ready
    /\ \E g \in GroupIds, a \in AlertIds, u \in AcknowledgeUntils, cm \in Comments,
          r \in SingleResponses :
        Do([op |-> "acknowledge_alert", group_id |-> g, alert_id |-> a,
            acknowledge_until |-> u, acknowledgement_comment |-> cm],
           acknowledge_alert(client, g, a, u, cm, r))

get_alert_configs(c, group_id, page_num, items_per_page, resp) ==
    LET pn == default(page_num, PyInt(1))
        ipp == default(items_per_page, PyInt(100))
        v == Then(test_parameter_for_string(group_id, "group_id"),
             Then(test_parameter_for_int(pn, "page_num"),
                  test_parameter_for_int(ipp, "items_per_page")))
    IN  IF v.kind = "raise" THEN Raised(v)
        ELSE http_get(c, urljoin(c.url, "groups/" \o Format(group_id)
                                          \o "/alertConfigs?pageNum=" \o Format(pn)
                                          \o "&itemsPerPage=" \o Format(ipp)), resp)

Call_get_alert_configs ==
    /\ Ready
    /\ \E g \in GroupIds, pn \in PageNums, ipp \in ItemsPerPage, r \in Responses :
        Do([op |-> "get_alert_configs", group_id |-> g, page_num |-> pn,
            items_per_page |-> ipp],
           get_alert_configs(client, g, pn, ipp, r))

get_all_open_alerts_triggered_by_alert_config(c, group_id, alert_config_id, page_num, items_per_page, resp) ==
    LET pn == default(page_num, PyInt(1))
        ipp == default(items_per_page, PyInt(100))
        v == Then(test_parameter_for_string(group_id, "group_id"),
             Then(test_parameter_for_string(alert_config_id, "alert_config_id"),
             Then(test_parameter_for_int(pn, "page_num"),
                  test_parameter_for_int(ipp, "items_per_page"))))
    IN  IF v.kind = "raise" THEN Raised(v)
        ELSE http_get(c, urljoin(c.url, "groups/" \o Format(group_id) \o "/alertConfigs/"
                                          \o Format(alert_config_id) \o "/alerts?pageNum="
                                          \o Format(pn) \o "&itemsPerPage=" \o Format(ipp)),
                      resp)

Call_get_all_open_alerts_triggered_by_alert_config ==
    /\ Ready
    /\ \E g \in GroupIds, a \in AlertIds, pn \in PageNums, ipp \in ItemsPerPage,
          r \in Responses :
        Do([op |-> "get_all_open_alerts_triggered_by_alert_config", group_id |-> g,
            alert_config_id |-> a, page_num |-> pn, items_per_page |-> ipp],
           get_all_open_alerts_triggered_by_alert_config(client, g, a, pn, ipp, r))

----------------------------------------------------------------------------
(* Agents, PingMeClient.py 1124-1185 *)

get_monitoring_agents(c, group_id, resp) ==
    LET v == test_parameter_for_string(group_id, "group_id") IN
    IF v.kind = "raise" THEN Raised(v)
    ELSE http_get(c, urljoin(c.url, "groups/" \o Format(group_id) \o "/agents/"
                                      \o "MONITORING"), resp)

\* get_backup_agents asking for the monitoring agents' path
get_backup_agents_asks_monitoring(c, group_id, resp) ==
    LET v == test_parameter_for_string(group_id, "group_id") IN
    IF v.kind = "raise" THEN Raised(v)
    ELSE http_get(c, urljoin(c.url, "groups/" \o Format(group_id) \o "/agents/"
                                      \o "MONITORING"), resp)

get_backup_agents(c, group_id, resp) ==
    LET v == test_parameter_for_string(group_id, "group_id") IN
    IF v.kind = "raise" THEN Raised(v)
    ELSE http_get(c, urljoin(c.url, "groups/" \o Format(group_id) \o "/agents/"
                                      \o "BACKUP"), resp)

get_automation_gents(c, group_id, resp) ==
    LET v == test_parameter_for_string(group_id, "group_id") IN
    IF v.kind = "raise" THEN Raised(v)
    ELSE http_get(c, urljoin(c.url, "groups/" \o Format(group_id) \o "/agents/"
                                      \o "AUTOMATION"), resp)

\* the 'results' list of an answer; empty when the sub-call raised
results_or_empty(done) ==
    IF done.outcome.kind = "return" /\ "results" \in DOMAIN done.outcome.val.d
    THEN done.outcome.val.d["results"].l ELSE <<>>

\* get_agents adding the backup agents in front of the monitoring agents
get_agents_backup_first(c, group_id, r1, r2, r3) ==
    LET v == test_parameter_for_string(group_id, "group_id")
        m == get_monitoring_agents(c, group_id, r1)
        b == get_backup_agents(c, group_id, r2)
        a == get_automation_gents(c, group_id, r3)
    IN  IF v.kind = "raise" THEN Raised(v)
        ELSE [sent |-> m.sent \o b.sent \o a.sent,
              received |-> m.received \o b.received \o a.received,
              outcome |-> Return(PyList(results_or_empty(b) \o results_or_empty(m)
                                        \o results_or_empty(a)))]

\* get_agents leaving out a category whose sub-call raised
get_agents_skips_failures(c, group_id, r1, r2, r3) ==
    LET v == test_parameter_for_string(group_id, "group_id")
        m == get_monitoring_agents(c, group_id, r1)
        b == get_backup_agents(c, group_id, r2)
        a == get_automation_gents(c, group_id, r3)
    IN  IF v.kind = "raise" THEN Raised(v)
        ELSE [sent |-> m.sent \o b.sent \o a.sent,
              received |-> m.received \o b.received \o a.received,
              outcome |-> Return(PyList(results_or_empty(m) \o results_or_empty(b)
                                        \o results_or_empty(a)))]

\* get_agents sending its three requests before it looks at any of the answers
get_agents_requests_all_first(c, group_id, r1, r2, r3) ==
    LET v == test_parameter_for_string(group_id, "group_id")
        m == get_monitoring_agents(c, group_id, r1)
        b == get_backup_agents(c, group_id, r2)
        a == get_automation_gents(c, group_id, r3)
        all == [sent |-> m.sent \o b.sent \o a.sent,
                received |-> m.received \o b.received \o a.received]
        agents1 == dict_get(m.outcome.val, "results")
        agents2 == iadd(agents1, dict_get(b.outcome.val, "results"))
        agents3 == iadd(agents2.val, dict_get(a.outcome.val, "results"))
    IN  IF v.kind = "raise" THEN Raised(v)
        ELSE [sent |-> all.sent, received |-> all.received,
              outcome |-> IF m.outcome.kind = "raise" THEN m.outcome
                          ELSE IF b.outcome.kind = "raise" THEN b.outcome
                          ELSE IF agents2.kind = "raise" THEN agents2
                          ELSE IF a.outcome.kind = "raise" THEN a.outcome
                          ELSE agents3]

\* agents = monitoring.get('results'); agents += backup.get('results');
\* agents += automation.get('results'); each right-hand side is evaluated (its
\* request sent) before the += that uses it
get_agents(c, group_id, r1, r2, r3) ==
    LET v == test_parameter_for_string(group_id, "group_id")
        m == get_monitoring_agents(c, group_id, r1)
        b == get_backup_agents(c, group_id, r2)
        a == get_automation_gents(c, group_id, r3)
        agents1 == dict_get(m.outcome.val, "results")
        agents2 == iadd(agents1, dict_get(b.outcome.val, "results"))
        agents3 == iadd(agents2.val, dict_get(a.outcome.val, "results"))
    IN  IF v.kind = "raise" THEN Raised(v)
        ELSE IF m.outcome.kind = "raise" THEN m
        ELSE IF b.outcome.kind = "raise"
             THEN [sent |-> m.sent \o b.sent, received |-> m.received \o b.received,
                   outcome |-> b.outcome]
        ELSE IF agents2.kind = "raise"
             THEN [sent |-> m.sent \o b.sent, received |-> m.received \o b.received,
                   outcome |-> agents2]
        ELSE IF a.outcome.kind = "raise"
             THEN [sent |-> m.sent \o b.sent \o a.sent,
                   received |-> m.received \o b.received \o a.received,
                   outcome |-> a.outcome]
        ELSE [sent |-> m.sent \o b.sent \o a.sent,
              received |-> m.received \o b.received \o a.received,
              outcome |-> agents3]

Call_get_agents ==
    /\ Ready
    /\ \E g \in GroupIds, r1 \in Responses, r2 \in Responses, r3 \in Responses :
        Do([op |-> "get_agents", group_id |-> g], get_agents(client, g, r1, r2, r3))

Call_get_monitoring_agents ==
    /\ Ready
    /\ \E g \in GroupIds, r \in Responses :
        Do([op |-> "get_monitoring_agents", group_id |-> g],
           get_monitoring_agents(client, g, r))

Call_get_backup_agents ==
    /\ Ready
    /\ \E g \in GroupIds, r \in Responses :
        Do([op |-> "get_backup_agents", group_id |-> g], get_backup_agents(client, g, r))

Call_get_automation_gents ==
    /\ Ready
    /\ \E g \in GroupIds, r \in Responses :
        Do([op |-> "get_automation_gents", group_id |-> g],
           get_automation_gents(client, g, r))

----------------------------------------------------------------------------
(* Restore jobs, PingMeClient.py 1854-1893 *)

create_restore_job_for_cluster(c, group_id, cluster_id, snapshot, resp) ==
    LET checkpoint_id == dict_get(snapshot, "checkpointId")
        snapshot_id == dict_get(snapshot, "snapshotId")
        timestamp == dict_get(snapshot, "timestamp")
        delivery == dict_get(snapshot, "delivery")
        v == Then(test_parameter_for_string(group_id, "group_id"),
             Then(test_parameter_for_string(cluster_id, "cluster_id"),
             Then(test_parameter_for_dictionary(snapshot, "snapshot"),
             Then(IF snapshot_id.t = "None" /\ timestamp.t = "None" /\ checkpoint_id.t = "None"
                  THEN Raise("Exception", "snapshot.snapshotId and snapshot.timestamp and "
                                          \o "snapshot.checkpointIdcannot be None. See "
                                          \o "https://docs.opsmanager.mongodb.com/current/"
                                          \o "reference/api/restore-jobs/"
                                          \o "#examples-create-restore-jobs"
                                          \o " for more information", "validation")
                  ELSE Ok,
             Then(IF timestamp.t # "None"
                  THEN Then(test_parameter_contains_val(timestamp, "date", "date"),
                            test_parameter_contains_val(timestamp, "increment", "increment"))
                  ELSE Ok,
                  IF delivery.t # "None" /\ dict_get(delivery, "methodName") = PyStr("SCP")
                  THEN Then(test_parameter_for_string(dict_get(delivery, "hostname"),
                                                      "snapshot.delivery.hostname"),
                       Then(test_parameter_for_int(dict_get(delivery, "port"),
                                                   "snapshot.delivery.port"),
                            test_parameter_for_string(dict_get(delivery, "targetDirectory"),
                                                      "snapshot.delivery.targetDirectory")))
                  ELSE Ok)))))
    IN  IF v.kind = "raise" THEN Raised(v)
        ELSE http_post(c, urljoin(c.url, "groups/" \o Format(group_id) \o "/clusters/"
                                           \o Format(cluster_id) \o "/restoreJobs"),
                       snapshot, resp)

Call_create_restore_job_for_cluster ==
    /\ Ready
    /\ \E g \in GroupIds, cl \in ClusterIds, sn \in Snapshots, r \in SingleResponses :
        Do([op |-> "create_restore_job_for_cluster", group_id |-> g, cluster_id |-> cl,
            snapshot |-> sn],
           create_restore_job_for_cluster(client, g, cl, sn, r))

----------------------------------------------------------------------------
(* update_host, PingMeClient.py 210-238 *)

\* host['authMechanismName'] is subscripted (create_host uses host.get), and host_id
\* goes into the path unexamined
update_host(c, group_id, host_id, host, resp) ==
    LET v == Then(test_parameter_for_string(group_id, "group_id"),
             Then(test_parameter_for_dictionary(host, "host"),
             Then(subscript(host, "hostname"),
             Then(test_parameter_for_string(host.d["hostname"], "host.hostname"),
             Then(subscript(host, "port"),
             Then(test_parameter_for_int(host.d["port"], "host.port"),
             Then(subscript(host, "authMechanismName"),
             Then(IF host.d["authMechanismName"] = PyStr("MONGODB_CR")
                  THEN Then(subscript(host, "username"),
                       Then(test_parameter_for_string(host.d["username"], "host.username"),
                       Then(subscript(host, "password"),
                            test_parameter_for_string(host.d["password"], "host.password"))))
                  ELSE Ok,
                  IF host.d["authMechanismName"] = PyStr("MONGODB_X509")
                  THEN Then(subscript(host, "username"),
                       Then(test_parameter_is_value(host.d["username"], "host.username", PyNone),
                       Then(subscript(host, "password"),
                       Then(test_parameter_is_value(host.d["password"], "host.password", PyNone),
                       Then(subscript(host, "sslEnabled"),
                            test_parameter_is_value(host.d["sslEnabled"], "host.sslEnabled",
                                                    PyTrue))))))
                  ELSE Ok))))))))
    IN  IF v.kind = "raise" THEN Raised(v)
        ELSE http_patch(c, urljoin(c.url, "groups/" \o Format(group_id) \o "/hosts/"
                                            \o Format(host_id)), host, resp)

Call_update_host ==
    /\ Ready
    /\ \E g \in GroupIds, h \in HostIds, host \in Hosts, r \in SingleResponses :
        Do([op |-> "update_host", group_id |-> g, host_id |-> h, host |-> host],
           update_host(client, g, h, host, r))

----------------------------------------------------------------------------
(* Global alerts, PingMeClient.py 987-1058 *)

\* 'globalAlerts?status={1}'.format(alert_status): one argument for the field {1}, so
\* building the url raises IndexError
get_global_alerts_by_status(c, alert_status, resp) ==
    LET v == Then(test_parameter_for_string(alert_status, "alert_status"),
                  IF alert_status = PyStr("CANCELLED")
                  THEN Raise("Exception", "The status parameter cannot retrieve CANCELLED "
                                          \o "global alerts." \o continuation(12)
                                          \o "See https://docs.opsmanager.mongodb.com/current/"
                                          \o "reference/api/global-alerts/"
                                          \o "#get-all-global-alerts", "validation")
                  ELSE Raise("IndexError", "tuple index out of range", "format"))
    IN  Raised(v)

Call_get_global_alerts_by_status ==
    /\ Ready
    /\ \E st \in GlobalAlertStatuses, r \in Responses :
        Do([op |-> "get_global_alerts_by_status", alert_status |-> st],
           get_global_alerts_by_status(client, st, r))

\* acknowledge_global_alert passing on whatever acknowledge_until is
acknowledge_global_alert_sends_any(c, global_alert_id, acknowledge_until, acknowledgement_comment, resp) ==
    LET comment == default(acknowledgement_comment, PyNone)
        v == Then(test_parameter_for_string(global_alert_id, "global_alert_id"),
                  IF comment.t # "None"
                  THEN test_parameter_for_string(comment, "acknowledgement_comment")
                  ELSE Ok)
        until == IF acknowledge_until.t = "datetime" THEN PyStr(acknowledge_until.iso)
                 ELSE acknowledge_until
        ack_doc == PyDict([acknowledgedUntil |-> until, acknowledgementComment |-> comment])
    IN  IF v.kind = "raise" THEN Raised(v)
        ELSE http_patch(c, urljoin(c.url, "globalAlerts/" \o Format(global_alert_id)),
                        ack_doc, resp)

acknowledge_global_alert(c, global_alert_id, acknowledge_until, acknowledgement_comment, resp) ==
    LET comment == default(acknowledgement_comment, PyNone)
        v == Then(test_parameter_for_string(global_alert_id, "global_alert_id"),
             Then(IF comment.t # "None"
                  THEN test_parameter_for_string(comment, "acknowledgement_comment")
                  ELSE Ok,
                  IF acknowledge_until.t \in {"datetime", "str"} THEN Ok
                  ELSE Raise("Exception", "acknowledge_until is the wrong type. Must be str, "
                                          \o "unicode, " \o continuation(28) \o "or datetime",
                             "validation")))
        until == IF acknowledge_until.t = "datetime" THEN PyStr(acknowledge_until.iso)
                 ELSE acknowledge_until
        ack_doc == PyDict([acknowledgedUntil |-> until, acknowledgementComment |-> comment])
    IN  IF v.kind = "raise" THEN Raised(v)
        ELSE http_patch(c, urljoin(c.url, "globalAlerts/" \o Format(global_alert_id)),
                        ack_doc, resp)

Call_acknowledge_global_alert ==
    /\ Ready
    /\ \E a \in AlertIds \cup {PyInt(5)}, u \in AcknowledgeUntils, cm \in Comments,
          r \in SingleResponses :
        Do([op |-> "acknowledge_global_alert", global_alert_id |-> a,
            acknowledge_until |-> u, acknowledgement_comment |-> cm],
           acknowledge_global_alert(client, a, u, cm, r))

----------------------------------------------------------------------------
(* Groups, PingMeClient.py 1289-1303 *)

get_group(c, group_id, resp) ==
    LET v == test_parameter_for_string(group_id, "group_id") IN
    IF v.kind = "raise" THEN Raised(v)
    ELSE http_get(c, urljoin(c.url, "groups/" \o Format(group_id)), resp)

Call_get_group ==
    /\ Ready
    /\ \E g \in GroupIds, r \in SingleResponses :
        Do([op |-> "get_group", group_id |-> g], get_group(client, g, r))

----------------------------------------------------------------------------
(* Automation configuration and status, PingMeClient.py 1938-1983 *)

get_automation_configuration(c, group_id, resp) ==
    LET v == test_parameter_for_string(group_id, "group_id") IN
    IF v.kind = "raise" THEN Raised(v)
    ELSE http_get(c, urljoin(c.url, "groups/" \o Format(group_id) \o "/automationConfig"), resp)

Call_get_automation_configuration ==
    /\ Ready
    /\ \E g \in GroupIds, r \in SingleResponses :
        Do([op |-> "get_automation_configuration", group_id |-> g],
           get_automation_configuration(client, g, r))

update_automation_configuration(c, group_id, config, resp) ==
    LET v == test_parameter_for_string(group_id, "group_id") IN
    IF v.kind = "raise" THEN Raised(v)
    ELSE http_post(c, urljoin(c.url, "groups/" \o Format(group_id) \o "/automationStatus"),
                   config, resp)

Call_update_automation_configuration ==
    /\ Ready
    /\ \E g \in GroupIds, cf \in AutomationConfigs, r \in SingleResponses :
        Do([op |-> "update_automation_configuration", group_id |-> g, config |-> cf],
           update_automation_configuration(client, g, cf, r))

get_automation_status(c, group_id, resp) ==
    LET v == test_parameter_for_string(group_id, "group_id") IN
    IF v.kind = "raise" THEN Raised(v)
    ELSE http_get(c, urljoin(c.url, "groups/" \o Format(group_id) \o "/automationStatus"), resp)

Call_get_automation_status ==
    /\ Ready
    /\ \E g \in GroupIds, r \in SingleResponses :
        Do([op |-> "get_automation_status", group_id |-> g],
           get_automation_status(client, g, r))

----------------------------------------------------------------------------
(* Whitelist, PingMeClient.py 1926-1934 *)

\* self.user['id'] is read from what the constructor stored; KeyError when the
\* stored document has no id
get_whitelist(c, resp) ==
    IF "id" \notin DOMAIN c.user.d THEN Raised(Raise("KeyError", "id", "state"))
    ELSE http_get(c, urljoin(c.url, "users/" \o Format(c.user.d["id"]) \o "/whitelist"), resp)

Call_get_whitelist ==
    /\ Ready
    /\ \E r \in Responses : Do([op |-> "get_whitelist"], get_whitelist(client, r))

----------------------------------------------------------------------------
(* get_whitelist called by several threads on the instance __init__ returned,
   PingMeClient.py 1931-1934; a thread's steps are the reads of self and the request *)

\* once __init__ has returned, the instance is shared; the record of the construction
\* (call, sent, received, outcome) stays as it is
Constructed == call.op = "__init__" /\ outcome.kind = "return" /\ client.exists

\* get_whitelist looking the user up by name in each call instead of reading self.user
T_build_url_looks_up_user(t) ==
    /\ Constructed
    /\ threads[t].pc = "idle"
    /\ threads' = [threads EXCEPT ![t] =
            IF "id" \notin DOMAIN client.user.d
            THEN [pc |-> "done", sent |-> <<>>, outcome |-> Raise("KeyError", "id", "state")]
            ELSE [pc |-> "built",
                  sent |-> <<Request(client, "GET",
                                     urljoin(client.url, "users/byName/"
                                                           \o Format(client.username)),
                                     PyNone)>>,
                  url |-> urljoin(client.url, "users/" \o Format(client.user.d["id"])
                                                \o "/whitelist")]]
    /\ UNCHANGED <<client, call, sent, received, outcome, warned>>

\* url = urljoin(self.url, 'users/{0}/whitelist'.format(self.user['id']))
T_build_url(t) ==
    /\ Constructed
    /\ threads[t].pc = "idle"
    /\ threads' = [threads EXCEPT ![t] =
            IF "id" \notin DOMAIN client.user.d
            THEN [pc |-> "done", sent |-> <<>>, outcome |-> Raise("KeyError", "id", "state")]
            ELSE [pc |-> "built", sent |-> <<>>,
                  url |-> urljoin(client.url, "users/" \o Format(client.user.d["id"])
                                                \o "/whitelist")]]
    /\ UNCHANGED <<client, call, sent, received, outcome, warned>>

\* requests.get(url, auth=HTTPDigestAuth(self.username, self.api_key)): the request
\* leaves
T_send(t) ==
    /\ threads[t].pc = "built"
    /\ threads' = [threads EXCEPT ![t] =
            [pc |-> "waiting",
             sent |-> Append(threads[t].sent,
                             Request(client, "GET", threads[t].url, PyNone))]]
    /\ UNCHANGED <<client, call, sent, received, outcome, warned>>

\* .json(): the answer is decoded and returned, or the transport raises
T_receive(t) ==
    /\ threads[t].pc = "waiting"
    /\ \E resp \in Responses :
        threads' = [threads EXCEPT ![t] =
            [pc |-> "done", sent |-> threads[t].sent, outcome |-> resp]]
    /\ UNCHANGED <<client, call, sent, received, outcome, warned>>

ThreadNext ==
    \/ Call_init
    \/ \E t \in Threads : T_build_url(t)
    \/ \E t \in Threads : T_send(t)
    \/ \E t \in Threads : T_receive(t)

ThreadSpec == Init /\ [][ThreadNext]_vars

----------------------------------------------------------------------------
Next ==
    \/ CallReturns
    \/ Call_init
    \/ Call_get_host
    \/ Call_get_hosts
    \/ Call_get_hosts_in_cluster
    \/ Call_get_host_by_hostname_and_port
    \/ Call_create_host
    \/ Call_get_alerts
    \/ Call_get_alert
    \/ Call_acknowledge_alert
    \/ Call_get_alert_configs
    \/ Call_get_all_open_alerts_triggered_by_alert_config
    \/ Call_get_agents
    \/ Call_get_monitoring_agents
    \/ Call_get_backup_agents
    \/ Call_get_automation_gents
    \/ Call_create_restore_job_for_cluster
    \/ Call_delete_host
    \/ Call_get_last_ping
    \/ Call_get_host_by_name
    \/ Call_get_metrics
    \/ Call_get_metric
    \/ Call_get_device_metric
    \/ Call_get_database_metric
    \/ Call_get_disk_partitions
    \/ Call_get_disk_partition
    \/ Call_get_databases
    \/ Call_get_single_database
    \/ Call_get_host_measurements_by_period
    \/ Call_get_list_of_measurements
    \/ Call_get_whitelist
    \/ Call_get_host_measurements_by_time_range
    \/ Call_get_disk_partition_measurements_by_period
    \/ Call_get_disk_partition_measurements_by_time_range
    \/ Call_get_database_measurements_by_period
    \/ Call_get_database_measurements_by_time_range
    \/ Call_update_host
    \/ Call_get_global_alerts_by_status
    \/ Call_acknowledge_global_alert
    \/ Call_get_group
    \/ Call_get_automation_configuration
    \/ Call_update_automation_configuration
    \/ Call_get_automation_status

Spec == Init /\ [][Next]_vars

----------------------------------------------------------------------------
(* Vocabulary of the properties *)

\* text that is empty or only white space, among the texts the callers pass
BlankTexts == {"", " "}

\* a well-shaped identifier: text that is neither empty nor blank
ValidId(v) == v.t = "str" /\ v.s \notin BlankTexts

\* Python's integers: int, and bool, which is a subclass of int
IsInteger(v) == v.t \in {"int", "bool"}

IdParams == {"group_id", "host_id", "cluster_id", "alert_id", "alert_config_id", "host_name"}
InvalidIdParams == {p \in IdParams \cap DOMAIN call : ~ ValidId(call[p])}

Finished == outcome.kind # "none"
ValidationFailure == outcome.kind = "raise" /\ outcome.origin = "validation"

\* <base>: the client's base URL, api/public/v1.0/ included
Base == client.url.authority \o client.url.dir

Get(url) == [verb |-> "GET", url |-> url, auth |-> <<client.username, client.api_key>>,
             data |-> PyNone]

PaginatedOps == {"get_hosts", "get_hosts_in_cluster", "get_alerts", "get_alert",
                 "get_alert_configs", "get_all_open_alerts_triggered_by_alert_config"}

----------------------------------------------------------------------------
(* Properties *)

\* C1: a call with an identifier parameter that is null, empty, blank or not text
\* ends by raising the validator's failure naming that parameter, and has sent no
\* request.
C1_InvalidIdentifierRaises ==
    (Finished /\ InvalidIdParams # {}) =>
        /\ sent = <<>>
        /\ outcome.kind = "raise"
        /\ outcome.exc = "Exception"
        /\ \E p \in InvalidIdParams : outcome.msg = p \o " must be a string and not empty."

\* C2: a call that ends by raising a local validation failure has sent no request.
C2_ValidationBeforeRequest ==
    ValidationFailure => sent = <<>>

\* C2 witness: get_agents, entered with a group id that is no text, raises in its
\* validation
C2_Witness ==
    /\ call.op = "get_agents"
    /\ ValidationFailure
    /\ sent = <<>>

\* C3: get_host(g, h) with valid g and h sends exactly one request, GET
\* <base>/groups/g/hosts/h.
C3_GetHostPath ==
    (call.op = "get_host" /\ ValidId(call.group_id) /\ ValidId(call.host_id)) =>
        sent = <<Get(Base \o "groups/" \o call.group_id.s \o "/hosts/" \o call.host_id.s)>>

\* C4: get_host_by_hostname_and_port(g, n, p) with valid g and n sends GET
\* <base>/groups/g/hosts/byName/n:p when p is an integer, and raises a validation
\* failure without sending when it is not.
C4_ByHostnameAndPort ==
    (call.op = "get_host_by_hostname_and_port" /\ ValidId(call.group_id)
        /\ ValidId(call.host_name)) =>
        IF IsInteger(call.port)
        THEN sent = <<Get(Base \o "groups/" \o call.group_id.s \o "/hosts/byName/"
                               \o call.host_name.s \o ":" \o Format(call.port))>>
        ELSE ValidationFailure /\ sent = <<>>

C4_Witness ==
    /\ call.op = "get_host_by_hostname_and_port"
    /\ call.port = PyInt(27017)
    /\ Len(sent) = 1
    /\ sent[1].url = "https://cloud.mongodb.com/api/public/v1.0/groups/g1/hosts/byName/"
                        \o "db.example.com:27017"

\* the three sub-calls of the current get_agents call all got a collection document
AllAgentListsReceived ==
    /\ call.op = "get_agents"
    /\ Len(received) = 3
    /\ \A i \in 1..3 : /\ received[i].kind = "return"
                       /\ "results" \in DOMAIN received[i].val.d
                       /\ received[i].val.d["results"].t = "list"

\* C5: when the three sub-calls return collection documents with result lists M, B
\* and A, get_agents returns M followed by B followed by A.
C5_AgentsConcatenated ==
    AllAgentListsReceived =>
        outcome = Return(PyList(received[1].val.d["results"].l
                                \o received[2].val.d["results"].l
                                \o received[3].val.d["results"].l))

\* C5 witness: 2 monitoring, 3 backup and 1 automation agents, returned as 6
C5_Witness ==
    /\ AllAgentListsReceived
    /\ received[1].val.d["results"].l = <<PyStr("agentA"), PyStr("agentB")>>
    /\ received[2].val.d["results"].l = <<PyStr("agentB"), PyStr("agentB"), PyStr("agentA")>>
    /\ received[3].val.d["results"].l = <<PyStr("agentA")>>
    /\ outcome.kind = "return"
    /\ Len(outcome.val.l) = 6

\* C6: when a sub-call of get_agents raises a transport failure, get_agents raises
\* that failure, having sent one request per category up to the failing one and none
\* after it: no partial list, no retry, no skipped category.
C6_AgentsFailureRaised ==
    (call.op = "get_agents" /\ \E i \in 1..Len(received) : received[i].kind = "raise") =>
        /\ outcome = received[Len(received)]
        /\ outcome.kind = "raise"
        /\ outcome.origin = "transport"
        /\ \A i \in 1..(Len(received) - 1) : received[i].kind = "return"
        /\ Len(sent) = Len(received)
        /\ \A i, j \in 1..Len(sent) : sent[i].url = sent[j].url => i = j

C6_Witness ==
    /\ call.op = "get_agents"
    /\ Len(received) = 2
    /\ received[1].kind = "return"
    /\ received[2] = Raise("ConnectionError", "transport", "transport")
    /\ outcome = received[2]

\* a complete host descriptor whose authMechanismName is MONGODB_X509
IsX509Descriptor(host) ==
    /\ host.t = "dict"
    /\ DOMAIN host.d = {"hostname", "port", "authMechanismName", "username", "password",
                        "sslEnabled"}
    /\ ValidId(host.d["hostname"])
    /\ host.d["port"].t = "int"
    /\ host.d["authMechanismName"] = PyStr("MONGODB_X509")

\* C7: create_host with a valid group id and the X509 descriptor with username null,
\* password null and sslEnabled true raises no validation failure and sends the POST
\* to groups/{groupId}/hosts.
C7_X509DescriptorAccepted ==
    (call.op = "create_host" /\ ValidId(call.group_id) /\ IsX509Descriptor(call.host)
        /\ call.host.d["username"] = PyNone /\ call.host.d["password"] = PyNone
        /\ call.host.d["sslEnabled"] = PyTrue) =>
        /\ ~ ValidationFailure
        /\ Len(sent) = 1
        /\ sent[1].verb = "POST"
        /\ sent[1].url = Base \o "groups/" \o call.group_id.s \o "/hosts"

\* C8: create_host with authMechanismName MONGODB_X509 and a non-null username raises
\* a validation failure naming host.username, and sends no request.
C8_X509UsernameRejected ==
    (call.op = "create_host" /\ ValidId(call.group_id) /\ IsX509Descriptor(call.host)
        /\ call.host.d["username"] # PyNone) =>
        /\ ValidationFailure
        /\ outcome.msg = "host.username is " \o Format(call.host.d["username"])
                            \o ", expected value is None."
        /\ sent = <<>>

\* C9: get_hosts(g, page_num=p, items_per_page=n) with valid g and integers p, n sends
\* GET groups/g/hosts with the query parameters pageNum=p and itemsPerPage=n; left
\* out, they are 1 and 100.
C9_GetHostsQuery ==
    (call.op = "get_hosts" /\ ValidId(call.group_id)
        /\ IsInteger(default(call.page_num, PyInt(1)))
        /\ IsInteger(default(call.items_per_page, PyInt(100)))) =>
        LET p == Format(default(call.page_num, PyInt(1)))
            n == Format(default(call.items_per_page, PyInt(100)))
            path == Base \o "groups/" \o call.group_id.s \o "/hosts?"
        IN  /\ Len(sent) = 1
            /\ sent[1].verb = "GET"
            /\ sent[1].url \in {path \o "pageNum=" \o p \o "&itemsPerPage=" \o n,
                                path \o "itemsPerPage=" \o n \o "&pageNum=" \o p}

\* C10: a paginated operation whose request is answered with a document sends exactly
\* one request and returns exactly that document, whatever the document says about
\* further pages.
C10_NoAutoPagination ==
    (call.op \in PaginatedOps /\ received # <<>> /\ received[1].kind = "return") =>
        /\ Len(sent) = 1
        /\ Len(received) = 1
        /\ outcome = received[1]

C10_Witness ==
    /\ call.op = "get_hosts"
    /\ Len(sent) = 1
    /\ outcome = Return(CollectionDoc(<<PyStr("agentA")>>, TRUE))

----------------------------------------------------------------------------
(* Properties of the deprecated operations, the outcomes and the transport *)

DeprecatedOps == {"get_host_by_name", "get_metrics", "get_metric", "get_device_metric",
                  "get_database_metric"}

\* what the function under the decorator does with the arguments of the current call
Undecorated(resp) ==
    CASE call.op = "get_host_by_name" ->
            get_host_by_name_undecorated(client, call.group_id, call.host_name, resp)
      [] call.op = "get_metrics" ->
            get_metrics_undecorated(client, call.group_id, call.host_id, resp)
      [] call.op = "get_metric" ->
            get_metric_undecorated(client, call.group_id, call.host_id, call.metric_id,
                                   call.granularity, call.period, resp)
      [] call.op = "get_device_metric" ->
            get_device_metric_undecorated(client, call.group_id, call.host_id,
                                          call.metric_id, call.device_name,
                                          call.granularity, call.period, resp)
      [] call.op = "get_database_metric" ->
            get_database_metric_undecorated(client, call.group_id, call.host_id,
                                            call.metric_id, call.database_name,
                                            call.granularity, call.period, resp)

\* C11: a call of a deprecated operation gives one DeprecationWarning and otherwise
\* does what the undecorated function does with the same arguments: the same
\* validation failure, or the same single request and the answer to it.
C11_DeprecatedBehavesAsUndecorated ==
    (call.op \in DeprecatedOps /\ Finished) =>
        /\ Len(warned) = 1
        /\ warned[1].category = "DeprecationWarning"
        /\ \E resp \in SingleResponses :
              LET u == Undecorated(resp)
              IN  sent = u.sent /\ received = u.received /\ outcome = u.outcome

\* a call of an operation on the instance (the constructor is not one)
OperationCall == call.op \notin {"none", "__init__"}

TransportFailure == outcome.kind = "raise" /\ outcome.origin = "transport"

\* the call returns the decoded answer to its request; get_agents, the composite,
\* returns the list built from all three answers
ReturnsDocument ==
    /\ outcome.kind = "return"
    /\ IF call.op = "get_agents"
       THEN Len(received) = 3 /\ outcome.val.t = "list"
       ELSE Len(received) = 1 /\ outcome = received[1]

\* C12: a finished call of an operation has (a) returned a decoded response document,
\* or (b) raised a validation failure with no request sent, or (c) raised the failure
\* the transport raised.
C12_ThreeOutcomes ==
    (OperationCall /\ Finished) =>
        \/ ReturnsDocument
        \/ ValidationFailure /\ sent = <<>>
        \/ TransportFailure /\ received # <<>> /\ outcome = received[Len(received)]

\* every request of the current call was answered with a document, one of them an
\* error document
AnsweredWithErrorDoc ==
    /\ OperationCall
    /\ received # <<>>
    /\ \A i \in 1..Len(received) : received[i].kind = "return"
    /\ \E i \in 1..Len(received) : received[i] = Return(ErrorDoc)

\* C13: an operation whose request is answered with an error document does not raise;
\* an operation of one request returns that document as it is.
C13_ErrorDocumentReturned ==
    AnsweredWithErrorDoc =>
        /\ outcome.kind = "return"
        /\ Len(received) = 1 => outcome = Return(ErrorDoc)

\* C14: when the transport raises on a request, the call ends with that very failure
\* and the failed request is the last one sent: nothing is sent again or afterwards.
C14_TransportFailurePropagates ==
    (\E i \in 1..Len(received) : received[i].kind = "raise") =>
        /\ outcome = received[Len(received)]
        /\ outcome.kind = "raise"
        /\ outcome.origin = "transport"
        /\ Len(sent) = Len(received)
        /\ \A i \in 1..(Len(received) - 1) : received[i].kind = "return"

C14_Witness ==
    /\ call.op = "get_alerts"
    /\ Len(sent) = 1
    /\ received = <<Raise("ConnectionError", "transport", "transport")>>
    /\ outcome = Raise("ConnectionError", "transport", "transport")

LocalFailure == outcome.kind = "raise" /\ outcome.origin # "transport" /\ received = <<>>

CreateOps == {"create_host", "create_restore_job_for_cluster"}
PartialUpdateOps == {"acknowledge_alert"}
DestroyOps == {"delete_host"}

\* the verb the CRUD nature of an operation asks for; the constructor's profile
\* lookup and every get_* operation read
VerbFor(op) ==
    IF op \in CreateOps THEN "POST"
    ELSE IF op \in PartialUpdateOps THEN "PATCH"
    ELSE IF op \in DestroyOps THEN "DELETE"
    ELSE "GET"

\* C16: every request of a call has the verb of the operation's CRUD nature: GET for a
\* read, POST for a create, PATCH for a partial update, DELETE for a destroy.
C16_VerbByCrudNature ==
    \A i \in 1..Len(sent) : sent[i].verb = VerbFor(call.op)

----------------------------------------------------------------------------
(* Properties of the construction and of the connection identity *)

\* C17: the constructor called with a null username, api_key or base_url raises and
\* leaves no instance; with base_url left out, the instance it builds has the base
\* URL https://cloud.mongodb.com/api/public/v1.0/.
C17_ConstructorChecks ==
    call.op = "__init__" =>
        /\ (PyNone \in {call.username, call.api_key, call.base_url}) =>
              /\ outcome.kind = "raise"
              /\ outcome.exc = "Exception"
              /\ outcome.msg \in {"username cannot be None.", "api_key cannot be None.",
                                  "base_url cannot be None."}
              /\ sent = <<>>
              /\ ~ client.exists
        /\ (call.base_url = Omitted /\ client.exists) =>
              Base = "https://cloud.mongodb.com/api/public/v1.0/"

C17_Witness ==
    /\ call.op = "__init__"
    /\ call.username = PyStr("pete")
    /\ call.api_key = PyNone
    /\ outcome = Raise("Exception", "api_key cannot be None.", "validation")
    /\ ~ client.exists

\* C18: the constructor sends no request; the user profile is looked up by the first
\* call that needs it.
C18_ConstructorSendsNothing ==
    call.op = "__init__" => sent = <<>>

\* the requests for the user profile sent on the instance: by the constructor and by
\* the threads
ProfileUrl == urljoin(client.url, "users/byName/" \o Format(client.username))
SentBy(t) == IF "sent" \in DOMAIN threads[t] THEN threads[t].sent ELSE <<>>
ProfileRequests ==
    {<<0, i>> : i \in {j \in 1..Len(sent) : sent[j].url = ProfileUrl}}
        \cup UNION {{<<t, i>> : i \in {j \in 1..Len(SentBy(t)) :
                                            SentBy(t)[j].url = ProfileUrl}} : t \in Threads}

\* the urls of the whitelist requests the threads have sent
WhitelistUrls ==
    UNION {{SentBy(t)[i].url : i \in 1..Len(SentBy(t))} : t \in Threads} \ {ProfileUrl}

\* C19: with several threads in get_whitelist on one instance, in any interleaving at
\* most one user-profile request has been sent and all callers ask for the whitelist
\* of the same user id.
C19_OneProfileRequest ==
    client.exists =>
        /\ Cardinality(ProfileRequests) <= 1
        /\ Cardinality(WhitelistUrls) <= 1
        /\ \A t \in Threads : threads[t].pc \in {"waiting", "done"} =>
              IF "id" \in DOMAIN client.user.d
              THEN SentBy(t) = <<Get(Base \o "users/" \o client.user.d["id"].s
                                          \o "/whitelist")>>
              ELSE SentBy(t) = <<>>

\* C19 witness: two threads are past their request at the same time, both waiting for
\* the answer
C19_Witness ==
    /\ \A t \in Threads : threads[t].pc = "waiting"
    /\ Cardinality(ProfileRequests) = 1
    /\ \A t \in Threads : threads[t].sent[1].url =
            "https://cloud.mongodb.com/api/public/v1.0/users/u1/whitelist"

\* C20: no step changes the username, api_key or url of an existing instance, and
\* every request of a call carries that username and api_key.
C20_IdentityFixed ==
    /\ [][client.exists =>
            /\ client'.exists
            /\ client'.username = client.username
            /\ client'.api_key = client.api_key
            /\ client'.url = client.url]_vars
    /\ [](client.exists =>
            \A i \in 1..Len(sent) : sent[i].auth = <<client.username, client.api_key>>)

\* C20 witness: a call on the instance built for pete has sent its request
C20_Witness ==
    /\ call.op = "acknowledge_alert"
    /\ client.username = PyStr("pete")
    /\ client.api_key = PyStr("key")
    /\ Len(sent) = 1
    /\ sent[1].auth = <<PyStr("pete"), PyStr("key")>>

\* C21: get_group called with a null group id raises an exception, sends no request,
\* and the message is exactly 'groupId must be a string and not empty.'
C21_GetGroupNullRaises ==
    (call.op = "get_group" /\ call.group_id = PyNone /\ Finished) =>
        /\ outcome.kind = "raise"
        /\ sent = <<>>
        /\ outcome.msg = "groupId must be a string and not empty."

\* the agent type each type-specific operation is about
AgentTypeOf(op) ==
    CASE op = "get_monitoring_agents" -> "MONITORING"
      [] op = "get_backup_agents" -> "BACKUP"
      [] op = "get_automation_gents" -> "AUTOMATION"

TypedAgentOps == {"get_monitoring_agents", "get_backup_agents", "get_automation_gents"}

\* C22: get_monitoring_agents, get_backup_agents and get_automation_gents each send
\* one GET to groups/{groupId}/agents/{TYPE}, TYPE being MONITORING, BACKUP and
\* AUTOMATION respectively, and never a request to another type's path.
C22_TypedAgentPaths ==
    (call.op \in TypedAgentOps /\ Finished) =>
        /\ \A i \in 1..Len(sent) :
                sent[i] = Get(Base \o "groups/" \o Format(call.group_id) \o "/agents/"
                                   \o AgentTypeOf(call.op))
        /\ ValidId(call.group_id) => Len(sent) = 1

\* C22 witness: get_backup_agents has asked for the backup agents of g1
C22_Witness ==
    /\ call.op = "get_backup_agents"
    /\ Len(sent) = 1
    /\ sent[1].verb = "GET"
    /\ sent[1].url = "https://cloud.mongodb.com/api/public/v1.0/groups/g1/agents/BACKUP"
    /\ outcome.kind = "return"

\* a key of the descriptor that holds non-empty, non-blank text
PresentText(host, key) == key \in DOMAIN host.d /\ ValidId(host.d[key])

\* C23: create_host and update_host with authMechanismName MONGODB_CR raise a
\* validation failure and send no request unless username and password are both
\* present as non-empty text.
C23_PasswordMechanismNeedsCredentials ==
    (call.op \in {"create_host", "update_host"} /\ Finished /\ call.host.t = "dict"
        /\ "authMechanismName" \in DOMAIN call.host.d
        /\ call.host.d["authMechanismName"] = PyStr("MONGODB_CR")
        /\ ~ (PresentText(call.host, "username") /\ PresentText(call.host, "password"))) =>
        /\ ValidationFailure
        /\ sent = <<>>

AcknowledgeOps == {"acknowledge_alert", "acknowledge_global_alert"}

WrongTypeMessage == "acknowledge_until is the wrong type. Must be str, unicode, "
                        \o continuation(28) \o "or datetime"

\* C24: acknowledge_alert and acknowledge_global_alert accept acknowledge_until only
\* when it is a datetime or a text string: a datetime is sent as its ISO-8601 text, a
\* string unchanged, in one PATCH request; any other value raises a validation
\* failure and no request is sent.
C24_AcknowledgeUntilTypes ==
    (call.op \in AcknowledgeOps /\ Finished) =>
        IF call.acknowledge_until.t \in {"datetime", "str"}
        THEN /\ outcome.kind = "raise" => outcome.msg # WrongTypeMessage
             /\ ValidationFailure => sent = <<>>
             /\ ~ ValidationFailure =>
                    /\ Len(sent) = 1
                    /\ sent[1].verb = "PATCH"
                    /\ sent[1].data.d["acknowledgedUntil"] =
                            IF call.acknowledge_until.t = "datetime"
                            THEN PyStr(call.acknowledge_until.iso)
                            ELSE call.acknowledge_until
        ELSE /\ ValidationFailure
             /\ sent = <<>>

\* C24 witness: acknowledge_global_alert, given a datetime, has sent its ISO text,
\* and (a second case, same operation) given a number has raised
C24_Witness ==
    /\ call.op = "acknowledge_global_alert"
    /\ call.acknowledge_until = PyDatetime("2017-07-15T00:00:00")
    /\ Len(sent) = 1
    /\ sent[1].verb = "PATCH"
    /\ sent[1].url = "https://cloud.mongodb.com/api/public/v1.0/globalAlerts/a1"
    /\ sent[1].data.d["acknowledgedUntil"] = PyStr("2017-07-15T00:00:00")

\* the position of the first ch in s at or after i, 0 when there is none
RECURSIVE Find(_, _, _)
Find(s, ch, i) ==
    IF i > Len(s) THEN 0
    ELSE IF SubSeq(s, i, i) = ch THEN i
    ELSE Find(s, ch, i + 1)

\* the pieces of s between the occurrences of ch
RECURSIVE Split(_, _)
Split(s, ch) ==
    LET i == Find(s, ch, 1) IN
    IF i = 0 THEN <<s>>
    ELSE <<SubSeq(s, 1, i - 1)>> \o Split(SubSeq(s, i + 1, Len(s)), ch)

StartsWith(s, prefix) == Len(s) >= Len(prefix) /\ SubSeq(s, 1, Len(prefix)) = prefix

\* the query parameters of a url, in order
QueryParams(url) ==
    LET i == Find(url, "?", 1) IN
    IF i = 0 THEN <<>> ELSE Split(SubSeq(url, i + 1, Len(url)), "&")

Named(params, name) == SelectSeq(params, LAMBDA q : StartsWith(q, name \o "="))

ByPeriodOps == {"get_host_measurements_by_period", "get_disk_partition_measurements_by_period",
                "get_database_measurements_by_period"}
ByTimeRangeOps == {"get_host_measurements_by_time_range",
                   "get_disk_partition_measurements_by_time_range",
                   "get_database_measurements_by_time_range"}

\* C25: the query of a measurement-range request contains granularity, either period
\* or start and end and never both, and one parameter m=ni for each name of the list
\* given, in order; with no list given there is no m parameter.
C25_MeasurementQuery ==
    (call.op \in ByPeriodOps \cup ByTimeRangeOps /\ Finished /\ Len(sent) = 1) =>
        LET params == QueryParams(sent[1].url)
            ms == default(call.measurements, PyNone)
            names == IF ms.t = "list" THEN ms.l ELSE <<>>
        IN  /\ Named(params, "granularity") = <<"granularity=" \o Format(call.granularity)>>
            /\ IF call.op \in ByPeriodOps
               THEN /\ Named(params, "period") = <<"period=" \o Format(call.period)>>
                    /\ Named(params, "start") = <<>>
                    /\ Named(params, "end") = <<>>
               ELSE /\ Named(params, "start") = <<"start=" \o Format(call.start)>>
                    /\ Named(params, "end") = <<"end=" \o Format(call.end)>>
                    /\ Named(params, "period") = <<>>
            /\ Named(params, "m") = [i \in 1..Len(names) |-> "m=" \o names[i]]

AgentsUrls ==
    [i \in 1..3 |-> Base \o "groups/" \o Format(call.group_id) \o "/agents/"
                         \o <<"MONITORING", "BACKUP", "AUTOMATION">>[i]]

\* C26: get_agents sends its sub-requests in the order monitoring, backup,
\* automation, each after the previous one has returned; when a sub-call fails no
\* later category is requested, so a failing call has sent as many requests as the
\* index of the failing category.
C26_AgentsInOrder ==
    (call.op = "get_agents" /\ Finished) =>
        /\ Len(sent) <= 3
        /\ \A i \in 1..Len(sent) : sent[i] = Get(AgentsUrls[i])
        /\ \A i \in 1..Len(received) : received[i].kind = "raise" => Len(sent) = i
        /\ \A i \in 2..Len(sent) : received[i - 1].kind = "return"

\* C26 witness: the backup sub-call has failed, after the monitoring one returned
C26_Witness ==
    /\ call.op = "get_agents"
    /\ Len(sent) = 2
    /\ sent[1].url = "https://cloud.mongodb.com/api/public/v1.0/groups/g1/agents/MONITORING"
    /\ sent[2].url = "https://cloud.mongodb.com/api/public/v1.0/groups/g1/agents/BACKUP"
    /\ received[2].kind = "raise"
    /\ outcome.kind = "raise"

\* C27: update_host raises a validation failure if and only if create_host does on
\* the same group id and descriptor, whatever host_id is, and otherwise sends its
\* PATCH to groups/{g}/hosts/{h} as create_host sends its POST to groups/{g}/hosts.
C27_SameHostValidation ==
    (call.op = "update_host" /\ Finished) =>
        \A resp \in SingleResponses :
            LET created == create_host(client, call.group_id, call.host, resp) IN
            /\ ValidationFailure <=>
                    (created.outcome.kind = "raise" /\ created.outcome.origin = "validation")
            /\ ~ ValidationFailure =>
                    /\ Len(sent) = 1
                    /\ sent[1].verb = "PATCH"
                    /\ sent[1].url = Base \o "groups/" \o Format(call.group_id) \o "/hosts/"
                                          \o Format(call.host_id)
                    /\ Len(created.sent) = 1
                    /\ created.sent[1].verb = "POST"
                    /\ created.sent[1].url = Base \o "groups/" \o Format(call.group_id)
                                                  \o "/hosts"

\* C28: update_automation_configuration writes to the resource that
\* get_automation_configuration reads, groups/{groupId}/automationConfig; only
\* get_automation_status sends a request to groups/{groupId}/automationStatus.
C28_AutomationConfigPath ==
    /\ (call.op \in {"get_automation_configuration", "update_automation_configuration"}) =>
            \A i \in 1..Len(sent) :
                sent[i].url = Base \o "groups/" \o Format(call.group_id) \o "/automationConfig"
    /\ (call.op # "get_automation_status" /\ "group_id" \in DOMAIN call) =>
            \A i \in 1..Len(sent) :
                sent[i].url # Base \o "groups/" \o Format(call.group_id) \o "/automationStatus"

\* C29: get_global_alerts_by_status(s) raises and sends no request when s is
\* CANCELLED; for TRACKING, OPEN and CLOSED it sends exactly one GET to globalAlerts
\* with the query status=s and returns the decoded document.
C29_GlobalAlertsByStatus ==
    (call.op = "get_global_alerts_by_status" /\ Finished) =>
        /\ call.alert_status = PyStr("CANCELLED") =>
                outcome.kind = "raise" /\ sent = <<>>
        /\ call.alert_status \in {PyStr("TRACKING"), PyStr("OPEN"), PyStr("CLOSED")} =>
                /\ sent = <<Get(Base \o "globalAlerts?status=" \o call.alert_status.s)>>
                /\ Len(received) = 1
                /\ received[1].kind = "return" => outcome = received[1]

HasValue(d, key) == key \in DOMAIN d.d /\ d.d[key] # PyNone

\* the snapshot descriptors the restore-job operation is to accept
AcceptableSnapshot(snapshot) ==
    /\ snapshot.t = "dict"
    /\ DOMAIN snapshot.d # {}
    /\ \E key \in {"snapshotId", "timestamp", "checkpointId"} : HasValue(snapshot, key)
    /\ HasValue(snapshot, "timestamp") =>
            /\ snapshot.d["timestamp"].t = "dict"
            /\ {"date", "increment"} \subseteq DOMAIN snapshot.d["timestamp"].d
    /\ (/\ HasValue(snapshot, "delivery")
        /\ dict_get(snapshot.d["delivery"], "methodName") = PyStr("SCP")) =>
            LET delivery == snapshot.d["delivery"] IN
            /\ dict_get(delivery, "hostname").t = "str"
            /\ IsInteger(dict_get(delivery, "port"))
            /\ dict_get(delivery, "targetDirectory").t = "str"

\* C30: create_restore_job_for_cluster sends its POST to
\* groups/{g}/clusters/{c}/restoreJobs only if the snapshot descriptor is acceptable;
\* in every other case it raises and sends no request.
C30_RestoreJobValidated ==
    (call.op = "create_restore_job_for_cluster" /\ Finished) =>
        /\ \A i \in 1..Len(sent) :
                /\ sent[i].verb = "POST"
                /\ sent[i].url = Base \o "groups/" \o Format(call.group_id) \o "/clusters/"
                                      \o Format(call.cluster_id) \o "/restoreJobs"
        /\ ~ AcceptableSnapshot(call.snapshot) =>
                outcome.kind = "raise" /\ sent = <<>>
====
